---- MODULE Spec2Model ----
(***************************************************************************)
(* vmctl: the remote deployment orchestrator (setup), the two remote       *)
(* transports of VMManager, the app sync step over a remote file tree, the *)
(* remote shell scripts, the bash-format configuration file, the instance  *)
(* lifecycle commands (start, stop, delete, restore), the background       *)
(* tunnel process and the legacy configuration migration.                  *)
(***************************************************************************)
EXTENDS Integers, Sequences, FiniteSets, TLC

VARIABLES
    config,     \* vm.config: the attributes VMManager and the commands read
                \* (ssh_host, ssh_user, ssh_key, ssh_port, project, app_dir)
    env,        \* the world outside the process: gcloud CLI, instance, local disk
    args,       \* the command line options of the invocation
    pc,         \* position of the running command
    app_list,   \* setup: the parsed app list
    i,          \* setup: 1-based index of the app being processed
    log,        \* every external command issued, in order, with its result
    calls,      \* setup: the step functions entered, in order, with their result
    status,     \* "running", "done" (exit 0), "aborted" (click.Abort, exit 1),
                \* "crashed" (unhandled exception, exit 1)
    out,        \* summary lines printed ("Setup complete")
    remote,     \* the remote file tree below /srv/vmctl
    hist,       \* results of consecutive sync_app runs (sync specification);
                \* the secrets file around each write of secrets --set
    run,        \* last remote script run (script specification)
    conf        \* the object under test: last configuration round trip (config
                \* specification), the TunnelManager (tunnel specification),
                \* the ConfigManager (migration specification)

vars == <<config, env, args, pc, app_list, i, log, calls, status, out, remote,
          hist, run, conf>>

None == "None"

(***************************************************************************)
(* Bounds of the model.                                                    *)
(***************************************************************************)
MaxApps == 2        \* longest --apps list enumerated
MaxSyncs == 2       \* consecutive sync_app runs enumerated
MaxSecrets == 2     \* most --set arguments enumerated
MaxLen == 2         \* longest free-text configuration value enumerated
MaxName == 3        \* most elements of an instance name enumerated
MaxStarts == 2      \* most background tunnels started
MaxCalls == 4       \* most TunnelManager method calls in one run
MaxLoads == 3       \* most ConfigManager.load calls in one run

(***************************************************************************)
(* Program constants.                                                      *)
(***************************************************************************)
GATEWAY == "openclaw-gateway"
WORKSTATION == "workstation"
DEFAULT_APPS == <<GATEWAY, WORKSTATION>>
VM_BASE_DIR == <<>>                 \* paths of `remote` are relative to /srv/vmctl
REMOTE_APPS_PARENT == VM_BASE_DIR \o <<"apps">>

remote_app_path(app_name) == REMOTE_APPS_PARENT \o <<app_name>>

(***************************************************************************)
(* Small helpers on sequences.                                             *)
(***************************************************************************)
IsPrefix(s, t) == Len(s) <= Len(t) /\ SubSeq(t, 1, Len(s)) = s

Range(s) == {s[k] : k \in 1..Len(s)}

(***************************************************************************)
(* VMManager: transport selection and command lines (core/vm.py).          *)
(***************************************************************************)
use_direct_ssh(c) == c.ssh_host # None

\* _ssh_opts / _scp_opts: -i only when ssh_key is set, -p / -P only when ssh_port is
ssh_opts(c) == [key |-> c.ssh_key, port |-> c.ssh_port]

\* _ssh_target: user@host, or host alone
ssh_target(c) == [user |-> c.ssh_user, host |-> c.ssh_host]

DirectCmd(prog, c, tty) ==
    [prog |-> prog, sub |-> None, iap |-> FALSE, tty |-> tty,
     key |-> ssh_opts(c).key, port |-> ssh_opts(c).port,
     user |-> ssh_target(c).user, host |-> ssh_target(c).host]

GcloudCmd(sub, iap) ==
    [prog |-> "gcloud", sub |-> sub, iap |-> iap, tty |-> FALSE,
     key |-> None, port |-> None, user |-> None, host |-> None]

\* VMManager.ssh_exec: the command line it hands to run_command
ssh_exec_cmd(c) ==
    IF use_direct_ssh(c) THEN DirectCmd("ssh", c, FALSE)
    ELSE GcloudCmd("compute ssh", TRUE)

\* VMManager.ssh (interactive shell or one command)
ssh_cmd(c) ==
    IF use_direct_ssh(c) THEN DirectCmd("ssh", c, FALSE)
    ELSE GcloudCmd("compute ssh", TRUE)

\* VMManager.scp
scp_cmd(c) ==
    IF use_direct_ssh(c) THEN DirectCmd("scp", c, FALSE)
    ELSE GcloudCmd("compute scp", TRUE)

\* VMManager.exists / VMManager.status: always the cloud control plane
describe_cmd == GcloudCmd("compute instances describe", FALSE)

\* One entry of `log`
Op(op, what, app, ok, cmd) ==
    [op |-> op, what |-> what, app |-> app, ok |-> ok, cmd |-> cmd]

SshExec(c, what, app, ok) == Op("ssh_exec", what, app, ok, ssh_exec_cmd(c))
Scp(c, what, app, ok) == Op("scp", what, app, ok, scp_cmd(c))

\* One entry of `calls`
Call(step, app, ok) == [step |-> step, app |-> app, ok |-> ok]

(***************************************************************************)
(* The remote file tree: directories and files as sets of paths.           *)
(***************************************************************************)
LocalFiles == {"compose.yml", "Dockerfile"}    \* content of every local app directory
StaleFiles == {"old.txt"}                      \* remote-only leftovers of earlier runs

Prefixes(p) == {SubSeq(p, 1, k) : k \in 0..Len(p)}

EmptyRemote == [dirs |-> {VM_BASE_DIR}, files |-> {}]

\* mkdir -p p
mkdir_p(r, p) == [r EXCEPT !.dirs = @ \cup Prefixes(p)]

\* rm -rf p
rm_rf(r, p) ==
    [dirs |-> {d \in r.dirs : ~IsPrefix(p, d)},
     files |-> {f \in r.files : ~IsPrefix(p, f)}]

\* scp -r <local dir `name`> host:<target>: into target/name when target is an
\* existing directory, as target itself otherwise; existing files are kept.
\* `copied` are the files that arrived (all of them when the copy succeeds).
scp_r(r, name, copied, target) ==
    LET dest == IF target \in r.dirs THEN target \o <<name>> ELSE target
    IN  IF copied = {} THEN r
        ELSE [dirs |-> r.dirs \cup Prefixes(dest),
              files |-> r.files \cup {dest \o <<f>> : f \in copied}]

\* The files directly inside apps/<app_name>
app_content(r, app_name) ==
    {f[Len(f)] : f \in {g \in r.files : Len(g) = Len(remote_app_path(app_name)) + 1
                                       /\ IsPrefix(remote_app_path(app_name), g)}}

\* A nested copy apps/<app_name>/<app_name>/...
nested(r, app_name) ==
    \E p \in r.dirs \cup r.files : IsPrefix(remote_app_path(app_name) \o <<app_name>>, p)

(***************************************************************************)
(* The remote shell scripts: a script is its commands in order, run by the *)
(* remote shell with or without `set -e`.                                  *)
(***************************************************************************)
EchoCmds == {"echo Restart complete", "echo Set KEY", "echo skip source update",
             "echo No compose file found"}

\* provision command, lines 300-336
provision_script ==
    [name |-> "provision", set_e |-> TRUE,
     cmds |-> <<"apt-get install curl git", "curl get.docker.com | sudo sh",
                "usermod -aG docker", "systemctl enable docker",
                "systemctl start docker", "mkdir -p /opt/apps",
                "docker compose version">>]

\* setup, lines 1049-1076: the install script setup sends itself
setup_provision_script ==
    [name |-> "setup provision", set_e |-> TRUE,
     cmds |-> <<"apt-get install curl git", "curl get.docker.com | sudo sh",
                "usermod -aG docker", "systemctl enable docker",
                "systemctl start docker", "docker compose version">>]

\* _setup_molt_directories, lines 695-720
mkdir_script ==
    [name |-> "bootstrap", set_e |-> TRUE,
     cmds |-> <<"mkdir -p agent dirs", "mkdir -p apps", "touch agent.env",
                "chown -R", "chmod -R 777", "ls -la">>]

\* a deploy script without the compose file check
build_deploy_script_unchecked(d) ==
    [name |-> "deploy", set_e |-> TRUE, found |-> d,
     cmds |-> <<"cd app_dir">> \o
              (IF d.deploy_sh THEN <<"bash ./deploy.sh">>
               ELSE IF d.git THEN <<"git pull --ff-only">>
               ELSE <<"echo skip source update">>) \o
              <<"docker compose up -d --build", "docker compose ps">>]

\* a deploy script that pulls a checkout even when a deploy hook exists
build_deploy_script_pull_first(d) ==
    [name |-> "deploy", set_e |-> TRUE, found |-> d,
     cmds |-> <<"cd app_dir">> \o
              (IF d.git THEN <<"git pull --ff-only">>
               ELSE IF d.deploy_sh THEN <<"bash ./deploy.sh">>
               ELSE <<"echo skip source update">>) \o
              (IF ~d.compose THEN <<"echo No compose file found", "exit 1">>
               ELSE <<>>) \o
              <<"docker compose up -d --build", "docker compose ps">>]

\* _build_deploy_script, lines 370-397, as the remote shell runs it in an app
\* directory: d says what the shell's file tests find there
build_deploy_script(d) ==
    [name |-> "deploy", set_e |-> TRUE, found |-> d,
     cmds |-> <<"cd app_dir">> \o
              (IF d.deploy_sh THEN <<"bash ./deploy.sh">>
               ELSE IF d.git THEN <<"git pull --ff-only">>
               ELSE <<"echo skip source update">>) \o
              (IF ~d.compose THEN <<"echo No compose file found", "exit 1">>
               ELSE <<>>) \o
              <<"docker compose up -d --build", "docker compose ps">>]

AppDirStates == [deploy_sh : BOOLEAN, git : BOOLEAN, compose : BOOLEAN]

\* docker_ps, lines 482-485
ps_cmd ==
    [name |-> "ps", set_e |-> FALSE,
     cmds |-> <<"cd app_dir", "docker compose ps">>]

\* docker_logs, lines 552-555
logs_cmd ==
    [name |-> "logs", set_e |-> FALSE,
     cmds |-> <<"cd app_dir", "docker compose logs">>]

\* restart, lines 613-618
restart_cmd ==
    [name |-> "restart", set_e |-> FALSE,
     cmds |-> <<"cd app_dir", "docker compose restart", "echo Restart complete",
                "docker compose ps">>]

\* secrets --set, lines 1289-1305
set_cmd ==
    [name |-> "secrets set", set_e |-> FALSE,
     cmds |-> <<"touch agent.env", "chmod 600", "sed -i delete key",
                "echo KEY=VALUE | sudo tee -a", "echo Set KEY">>]

\* The sets of commands that may fail: an echo never does, `exit 1` always does
FailSets(s) ==
    {F \in SUBSET {k \in 1..Len(s.cmds) : s.cmds[k] \notin EchoCmds} :
        \A k \in 1..Len(s.cmds) : s.cmds[k] = "exit 1" => k \in F}

SetMin(S) == CHOOSE x \in S : \A y \in S : x <= y

\* The shell stops at a failing command under `set -e`, and at `exit`
halts(s, k, fails) == k \in fails /\ (s.set_e \/ s.cmds[k] = "exit 1")

\* The last command the shell runs
last_line(s, fails) ==
    LET H == {k \in 1..Len(s.cmds) : halts(s, k, fails)}
    IN  IF H = {} THEN Len(s.cmds) ELSE SetMin(H)

\* The script's exit status is that of the last command run
script_ok(s, fails) == last_line(s, fails) \notin fails

\* vm.ssh_exec(script): the connection may fail before the script runs
ScriptRun(s, net_ok, fails) ==
    [script |-> s.name, cmds |-> s.cmds, set_e |-> s.set_e, fails |-> fails,
     ran |-> IF net_ok THEN last_line(s, fails) ELSE 0,
     ok |-> net_ok /\ script_ok(s, fails),
     found |-> IF "found" \in DOMAIN s THEN s.found ELSE None,
     reported |-> None]

(***************************************************************************)
(* Pre-checks shared by the remote commands.                               *)
(***************************************************************************)
\* a check that lets a stopped instance and a failed probe through
check_vm_running_exists_only(c, e, echo_ok) ==
    IF use_direct_ssh(c)
    THEN [ops |-> <<SshExec(c, "echo ok", "-", echo_ok)>>, outcome |-> "pass"]
    ELSE IF ~e.gcloud
    THEN [ops |-> <<Op("exists", "describe", "-", FALSE, describe_cmd)>>,
          outcome |-> "crashed"]
    ELSE IF e.vm = "ABSENT"
    THEN [ops |-> <<Op("exists", "describe", "-", FALSE, describe_cmd)>>,
          outcome |-> "aborted"]
    ELSE [ops |-> <<Op("exists", "describe", "-", TRUE, describe_cmd),
                    Op("status", "describe", "-", TRUE, describe_cmd)>>,
          outcome |-> "pass"]

\* a check that asks for the instance status under both transports
check_vm_running_status_first(c, e, echo_ok) ==
    IF ~e.gcloud
    THEN [ops |-> <<Op("exists", "describe", "-", FALSE, describe_cmd)>>,
          outcome |-> "crashed"]
    ELSE IF e.vm = "ABSENT"
    THEN [ops |-> <<Op("exists", "describe", "-", FALSE, describe_cmd)>>,
          outcome |-> "aborted"]
    ELSE [ops |-> <<Op("exists", "describe", "-", TRUE, describe_cmd),
                    Op("status", "describe", "-", TRUE, describe_cmd)>>,
          outcome |-> IF e.vm = "RUNNING" THEN "pass" ELSE "aborted"]

\* _check_vm_running: the external commands it issues and how it ends
check_vm_running(c, e, echo_ok) ==
    IF use_direct_ssh(c)
    THEN [ops |-> <<SshExec(c, "echo ok", "-", echo_ok)>>,
          outcome |-> IF echo_ok THEN "pass" ELSE "aborted"]
    ELSE IF ~e.gcloud          \* run_command raises GCloudError, which nobody catches
    THEN [ops |-> <<Op("exists", "describe", "-", FALSE, describe_cmd)>>,
          outcome |-> "crashed"]
    ELSE IF e.vm = "ABSENT"
    THEN [ops |-> <<Op("exists", "describe", "-", FALSE, describe_cmd)>>,
          outcome |-> "aborted"]
    ELSE [ops |-> <<Op("exists", "describe", "-", TRUE, describe_cmd),
                    Op("status", "describe", "-", TRUE, describe_cmd)>>,
          outcome |-> IF e.vm = "RUNNING" THEN "pass" ELSE "aborted"]

(***************************************************************************)
(* setup: parsing of --apps.                                               *)
(***************************************************************************)
PADDED_WORKSTATION == " workstation "
AppEntries == {GATEWAY, PADDED_WORKSTATION, "missing-app", ""}

\* str.strip() on the entries enumerated
strip(a) == IF a = PADDED_WORKSTATION THEN WORKSTATION ELSE a

NonEmptyEntry(a) == strip(a) # ""

StripAll(s) == [k \in 1..Len(s) |-> strip(s[k])]

\* an app list that keeps the empty entries
parse_apps_keeps_empty(apps) ==
    IF apps = <<>> \/ apps = <<"">> THEN DEFAULT_APPS
    ELSE StripAll(apps)

\* args.apps is <<>> (option absent) or the comma-split option string (at least
\* one entry); the empty string splits to <<"">> and is falsy
parse_apps(apps) ==
    IF apps = <<>> \/ apps = <<"">> THEN DEFAULT_APPS
    ELSE StripAll(SelectSeq(apps, NonEmptyEntry))

(***************************************************************************)
(* setup: the step functions.                                              *)
(***************************************************************************)
\* recursive copy aimed at the app directory itself
sync_scp_target_app_dir(app_name) == remote_app_path(app_name)

\* _sync_app: where the recursive copy is aimed
sync_scp_target(app_name) == REMOTE_APPS_PARENT

\* the result of the parent mkdir dropped
sync_app_result_mkdir_unchecked(app_name, mk_ok, cp_ok) ==
    app_name \in env.local_apps /\ cp_ok

sync_app_result(app_name, mk_ok, cp_ok) ==
    app_name \in env.local_apps /\ mk_ok /\ cp_ok

\* _sync_app: mkdir -p of the parent (checked), rm -rf of the old copy
\* (result dropped), scp -r into the parent (checked)
sync_app(app_name, mk_ok, rm_ok, cp_ok, copied) ==
    IF app_name \notin env.local_apps
    THEN UNCHANGED <<log, remote>>
    ELSE IF ~mk_ok
    THEN /\ log' = Append(log, SshExec(config, "mkdir -p apps", app_name, FALSE))
         /\ UNCHANGED remote
    ELSE LET r1 == mkdir_p(remote, REMOTE_APPS_PARENT)
             r2 == IF rm_ok THEN rm_rf(r1, remote_app_path(app_name)) ELSE r1
             arrived == IF cp_ok THEN LocalFiles ELSE copied
         IN  /\ log' = log \o
                   <<SshExec(config, "mkdir -p apps", app_name, TRUE),
                     SshExec(config, "rm -rf app", app_name, rm_ok),
                     Scp(config, "scp -r app", app_name, cp_ok)>>
             /\ remote' = scp_r(r2, app_name, arrived, sync_scp_target(app_name))

PartialCopies == {S \in SUBSET LocalFiles : S # LocalFiles}

\* What a failed step does to the run
AbortRun ==
    /\ status' = "aborted"
    /\ pc' = "end"

CrashRun ==
    /\ status' = "crashed"
    /\ pc' = "end"

\* validation that accepts every list
preflight_accepts_all(parsed, e) == TRUE

\* setup, lines 1031-1038: every requested app exists in the local apps directory
preflight(parsed, e) == \A k \in 1..Len(parsed) : parsed[k] \in e.local_apps

\* setup, lines 1012-1038: config, runnable-state check, app list, pre-flight
SetupStart ==
    /\ pc = "start"
    /\ args.command = "setup"
    /\ UNCHANGED <<config, env, args, i, out, remote, hist, run, conf>>
    /\ IF ~env.config_exists
       THEN AbortRun /\ UNCHANGED <<log, calls, app_list>>
       ELSE \E echo_ok \in BOOLEAN :
            LET chk == check_vm_running(config, env, echo_ok)
                parsed == parse_apps(args.apps)
                checked == Call("check_vm_running", "-", chk.outcome = "pass")
            IN  /\ log' = log \o chk.ops
                /\ IF chk.outcome = "crashed"
                   THEN CrashRun /\ calls' = <<checked>> /\ UNCHANGED app_list
                   ELSE IF chk.outcome = "aborted"
                   THEN AbortRun /\ calls' = <<checked>> /\ UNCHANGED app_list
                   ELSE /\ app_list' = parsed
                        /\ calls' = <<checked, Call("preflight", "-", preflight(parsed, env))>>
                        /\ IF ~preflight(parsed, env)
                           THEN AbortRun
                           ELSE pc' = "provision" /\ UNCHANGED status

\* provisioning followed directly by the gateway repo sync
after_provision_no_bootstrap == "repo"

\* setup, lines 1087-1090: the step that follows provisioning
after_provision == "bootstrap"

\* a runtime taken as installed whatever the check says
docker_installed_always(check_result, stdout) == TRUE

\* setup, line 1045: `check_result and stdout.strip()`
docker_installed(check_result, stdout) == check_result /\ stdout # ""

\* setup, lines 1040-1085: docker check, then the install script when needed
SetupProvision ==
    /\ pc = "provision"
    /\ UNCHANGED <<config, env, args, app_list, i, out, remote, hist, run, conf>>
    /\ IF args.skip_provision
       THEN pc' = after_provision /\ UNCHANGED <<log, calls, status>>
       ELSE \E check_result \in BOOLEAN, stdout \in {"", "/usr/bin/docker"},
               net_ok \in BOOLEAN, fails \in FailSets(setup_provision_script) :
            LET ok == net_ok /\ script_ok(setup_provision_script, fails)
                check == SshExec(config, "command -v docker", "-", check_result)
                             @@ [stdout |-> stdout]
            IN
            \* a failed command prints no path
            /\ ~check_result => stdout = ""
            /\ IF docker_installed(check_result, stdout)
               THEN /\ log' = Append(log, check)
                    /\ calls' = Append(calls, Call("provision", "-", TRUE))
                    /\ pc' = after_provision /\ UNCHANGED status
               ELSE /\ log' = log \o <<check, SshExec(config, "provision script", "-", ok)>>
                    /\ calls' = Append(calls, Call("provision", "-", ok))
                    /\ IF ok THEN pc' = after_provision /\ UNCHANGED status ELSE AbortRun

AgentDirs ==
    {<<"agent", GATEWAY, d>> : d \in {"repo", "outbox", "state", "secrets"}}

\* _setup_molt_directories, called from setup line 1089
SetupBootstrap ==
    /\ pc = "bootstrap"
    /\ UNCHANGED <<config, env, args, app_list, i, out, hist, run, conf>>
    /\ \E net_ok \in BOOLEAN, fails \in FailSets(mkdir_script) :
        LET ok == net_ok /\ script_ok(mkdir_script, fails)
        IN
        /\ log' = Append(log, SshExec(config, "mkdir script", "-", ok))
        /\ calls' = Append(calls, Call("bootstrap", "-", ok))
        /\ IF ok
           THEN /\ remote' =
                     [dirs |-> remote.dirs \cup Prefixes(REMOTE_APPS_PARENT)
                                 \cup UNION {Prefixes(d) : d \in AgentDirs},
                      files |-> remote.files
                                 \cup {<<"agent", GATEWAY, "secrets", "agent.env">>}]
                /\ pc' = "repo" /\ UNCHANGED status
           ELSE UNCHANGED remote /\ AbortRun

\* a repo sync that fails when its remove or its move failed
sync_gateway_repo_result_all_checked(rm_ok, cp_ok, mv_ok) == rm_ok /\ cp_ok /\ mv_ok

\* _sync_gateway_repo, lines 840-852: `return success`, the result of vm.scp
sync_gateway_repo_result(rm_ok, cp_ok, mv_ok) == cp_ok

\* setup, lines 1092-1107, with _sync_gateway_repo
SetupGatewayRepo ==
    /\ pc = "repo"
    /\ UNCHANGED <<config, env, args, app_list, out, remote, hist, run, conf>>
    /\ IF GATEWAY \notin Range(app_list) \/ ~env.repo_exists
       THEN /\ pc' = "sync" /\ i' = 1
            /\ UNCHANGED <<log, calls, status>>
       ELSE \E rm_ok \in BOOLEAN, cp_ok \in BOOLEAN, mv_ok \in BOOLEAN :
            /\ log' = log \o
                  <<SshExec(config, "rm -rf repo/*", GATEWAY, rm_ok),
                    Scp(config, "scp -r repo", GATEWAY, cp_ok)>> \o
                  (IF cp_ok THEN <<SshExec(config, "mv into repo", GATEWAY, mv_ok)>>
                   ELSE <<>>)
            /\ calls' = Append(calls, Call("repo_sync", GATEWAY,
                                           sync_gateway_repo_result(rm_ok, cp_ok, mv_ok)))
            /\ IF sync_gateway_repo_result(rm_ok, cp_ok, mv_ok)
               THEN pc' = "sync" /\ i' = 1 /\ UNCHANGED status
               ELSE AbortRun /\ UNCHANGED i

\* loop head of setup line 1110: past the last app the summary is printed
SetupFinish ==
    /\ pc = "sync"
    /\ i > Len(app_list)
    /\ out' = Append(out, "Setup complete")
    /\ status' = "done"
    /\ pc' = "end"
    /\ UNCHANGED <<config, env, args, app_list, i, log, calls, remote, hist, run, conf>>

\* setup, lines 1111-1113
SetupSync ==
    /\ pc = "sync"
    /\ i <= Len(app_list)
    /\ UNCHANGED <<config, env, args, app_list, i, out, hist, run, conf>>
    /\ \E mk_ok \in BOOLEAN, rm_ok \in BOOLEAN, cp_ok \in BOOLEAN, copied \in PartialCopies :
        /\ sync_app(app_list[i], mk_ok, rm_ok, cp_ok, copied)
        /\ calls' = Append(calls,
               Call("sync", app_list[i], sync_app_result(app_list[i], mk_ok, cp_ok)))
        /\ IF sync_app_result(app_list[i], mk_ok, cp_ok)
           THEN pc' = "deploy" /\ UNCHANGED status
           ELSE AbortRun

\* a failed deploy that lets the loop go on
AfterDeployFailure_continues == pc' = "hooks" /\ UNCHANGED status

\* What follows a failed deploy of one app
AfterDeployFailure == AbortRun

\* _deploy_app, lines 795-807: how the deploy script can end, by whether the
\* app directory holds a compose file
DeployOutcomes ==
    UNION {{[ok |-> ScriptRun(build_deploy_script(d), net_ok, fails).ok,
             compose |-> d.compose] :
               net_ok \in BOOLEAN, fails \in FailSets(build_deploy_script(d))} :
           d \in AppDirStates}

\* setup, lines 1115-1117, with _deploy_app; the log entry of the script says
\* whether the directory it ran in held a compose file
SetupDeploy ==
    /\ pc = "deploy"
    /\ UNCHANGED <<config, env, args, app_list, i, out, remote, hist, run, conf>>
    /\ \E r \in DeployOutcomes :
        /\ log' = Append(log, SshExec(config, "deploy script", app_list[i], r.ok)
                                 @@ [compose |-> r.compose])
        /\ calls' = Append(calls, Call("deploy", app_list[i], r.ok))
        /\ IF r.ok THEN pc' = "hooks" /\ UNCHANGED status
           ELSE AfterDeployFailure

\* _grant_bigquery_permissions: subprocess.run of gcloud, CalledProcessError caught,
\* FileNotFoundError (no gcloud binary) not caught.  What the cloud answers is a
\* property of the project (env.iam), the same at every call of one run.
grant_bigquery_permissions(e) ==
    LET describe(ok) == Op("subprocess", "describe service account", GATEWAY, ok,
                           describe_cmd)
        bind(role, ok) == Op("subprocess", role, GATEWAY, ok,
                             GcloudCmd("projects add-iam-policy-binding", FALSE))
    IN  IF ~e.gcloud
        THEN [ops |-> <<describe(FALSE)>>, outcome |-> "crashed", granted |-> FALSE]
        ELSE IF e.iam = "lookup_failed"
        THEN [ops |-> <<describe(FALSE)>>, outcome |-> "pass", granted |-> FALSE]
        ELSE IF e.iam = "no_service_account"
        THEN [ops |-> <<describe(TRUE)>>, outcome |-> "pass", granted |-> FALSE]
        ELSE [ops |-> <<describe(TRUE),
                        bind("roles/bigquery.dataEditor", e.iam # "denied"),
                        bind("roles/bigquery.jobUser", e.iam = "granted")>>,
              outcome |-> "pass", granted |-> e.iam = "granted"]

IamStates == {"lookup_failed", "no_service_account", "denied", "one_role", "granted"}

\* hooks after every app
has_post_hooks_every_app(app_name) == TRUE

\* setup, line 1120: the app whose deploy is followed by the hooks
has_post_hooks(app_name) == app_name = GATEWAY

\* setup, lines 1119-1126: the post-deploy hooks of the gateway app
SetupHooks ==
    /\ pc = "hooks"
    /\ UNCHANGED <<config, env, args, app_list, out, remote, hist, run, conf>>
    /\ IF ~has_post_hooks(app_list[i])
       THEN /\ pc' = "sync" /\ i' = i + 1
            /\ UNCHANGED <<log, calls, status>>
       ELSE LET sec_ok == env.secrets_ok
                checked == Append(log, SshExec(config, "secrets check", GATEWAY, sec_ok))
                called == Append(calls, Call("check_agent_secrets", GATEWAY, sec_ok))
                g == grant_bigquery_permissions(env)
            IN  IF config.project = None
                THEN /\ log' = checked /\ calls' = called
                     /\ pc' = "sync" /\ i' = i + 1 /\ UNCHANGED status
                ELSE /\ log' = checked \o g.ops
                     /\ calls' = Append(called,
                            Call("grant_bigquery_permissions", GATEWAY, g.granted))
                     /\ IF g.outcome = "crashed"
                        THEN CrashRun /\ UNCHANGED i
                        ELSE pc' = "sync" /\ i' = i + 1 /\ UNCHANGED status

(***************************************************************************)
(* The single-script remote commands.                                      *)
(***************************************************************************)
\* _get_vm_manager, then _check_vm_running
command_start(c, e, echo_ok) ==
    IF ~e.config_exists THEN [ops |-> <<>>, outcome |-> "aborted"]
    ELSE check_vm_running(c, e, echo_ok)

\* the configured directory taken before the option
resolve_app_dir_config_first(app_dir, config_app_dir) ==
    IF config_app_dir \notin {None, ""} THEN config_app_dir ELSE app_dir

\* _resolve_app_dir, line 115: `app_dir or config_app_dir`; None and the empty
\* string are falsy
resolve_app_dir(app_dir, config_app_dir) ==
    IF app_dir \notin {None, ""} THEN app_dir ELSE config_app_dir

EndAs(st) == status' = st /\ pc' = "end"

\* every failed script an error
report_strict(r, tolerant) ==
    IF r.ok THEN "done" ELSE "aborted"

\* How a command prints and exits on the result of its script
report(r, tolerant) ==
    IF r.ok \/ tolerant THEN "done" ELSE "aborted"

\* A command that checks the VM, resolves the app directory when it needs one,
\* sends one script and reports its result
RemoteCommand(s, needs_dir, tolerant) ==
    /\ pc = "start"
    /\ UNCHANGED <<config, env, args, app_list, i, calls, remote, hist, conf>>
    /\ \E echo_ok \in BOOLEAN, net_ok \in BOOLEAN, fails \in FailSets(s) :
        LET st == command_start(config, env, echo_ok)
            r == ScriptRun(s, net_ok, fails)
            resolved == resolve_app_dir(args.app_dir, config.app_dir)
            \* the log entry of a script says the directory it was built with
            sent == IF needs_dir
                    THEN SshExec(config, s.name, "-", r.ok) @@ [dir |-> resolved]
                    ELSE SshExec(config, s.name, "-", r.ok)
        IN  IF st.outcome # "pass"
            THEN /\ log' = log \o st.ops
                 /\ EndAs(st.outcome)
                 /\ UNCHANGED <<run, out>>
            ELSE IF needs_dir /\ resolved \in {None, ""}       \* `if not resolved`
            THEN /\ log' = log \o st.ops
                 /\ EndAs("aborted")
                 /\ out' = Append(out, "No app directory specified")
                 /\ UNCHANGED run
            ELSE /\ log' = log \o st.ops \o <<sent>>
                 /\ run' = [r EXCEPT !.reported = IF r.ok THEN "success"
                                                    ELSE IF tolerant THEN "stopped"
                                                    ELSE "failure"]
                 /\ out' = Append(out, IF r.ok THEN "success"
                                       ELSE IF tolerant THEN "stopped" ELSE "failure")
                 /\ EndAs(report(r, tolerant))

\* provision, lines 281-355
Provision ==
    /\ args.command = "provision"
    /\ RemoteCommand(provision_script, FALSE, FALSE)

\* deploy, lines 405-444
Deploy ==
    /\ args.command = "deploy"
    /\ \E d \in AppDirStates : RemoteCommand(build_deploy_script(d), TRUE, FALSE)

\* docker_ps, lines 459-502
DockerPs ==
    /\ args.command = "ps"
    /\ RemoteCommand(ps_cmd, TRUE, FALSE)

\* docker_logs, lines 523-578: a failed follow is not an error, Ctrl+C is caught
DockerLogs ==
    /\ args.command = "logs"
    /\ \/ RemoteCommand(logs_cmd, TRUE, args.follow)
       \/ /\ pc = "start"
          /\ env.config_exists
          /\ \E echo_ok \in BOOLEAN :
               LET st == check_vm_running(config, env, echo_ok)
               IN  /\ st.outcome = "pass"
                   /\ resolve_app_dir(args.app_dir, config.app_dir) \notin {None, ""}
                   /\ log' = log \o st.ops \o
                         <<SshExec(config, "logs", "-", FALSE)
                             @@ [dir |-> resolve_app_dir(args.app_dir, config.app_dir)]>>
          /\ out' = Append(out, "stopped")       \* KeyboardInterrupt during ssh_exec
          /\ EndAs("done")
          /\ UNCHANGED <<config, env, args, app_list, i, calls, remote, hist, run, conf>>

\* restart, lines 587-634
Restart ==
    /\ args.command = "restart"
    /\ RemoteCommand(restart_cmd, TRUE, FALSE)

\* secrets --edit, lines 1229-1263: the command line it builds itself
secrets_edit_cmd(c) ==
    IF use_direct_ssh(c)
    THEN [prog |-> "ssh", sub |-> None, iap |-> FALSE, tty |-> TRUE,
          key |-> c.ssh_key, port |-> None,
          user |-> c.ssh_user, host |-> c.ssh_host]
    ELSE GcloudCmd("compute ssh", FALSE)

SecretArgs == {"K1=a", "K1=b", "K2=a", "novalue", "=a"}

\* "=" in secret, and the key before the first "=" is not empty
valid_secret(x) == x \in {"K1=a", "K1=b", "K2=a"}

\* The key of a KEY=VALUE line: what stands before the first "="
key_of(x) == IF x \in {"K1=a", "K1=b", "K1=old"} THEN "K1" ELSE "K2"

\* The secrets file after the first k set scripts ran: set_cmd lines 1298-1302,
\* `sed -i "/^KEY=/d"` and `echo KEY=VALUE | sudo tee -a`, each of which may
\* fail on its own (flags[k] says which succeeded)
RECURSIVE secrets_file(_, _, _, _)
secrets_file(lines, secrets, flags, k) ==
    IF k = 0 THEN lines
    ELSE LET before == secrets_file(lines, secrets, flags, k - 1)
             kept == IF flags[k].sed
                     THEN SelectSeq(before, LAMBDA l : key_of(l) # key_of(secrets[k]))
                     ELSE before
         IN  IF flags[k].tee THEN Append(kept, secrets[k]) ELSE kept

\* secrets, lines 1184-1334
Secrets ==
    /\ pc = "start"
    /\ args.command = "secrets"
    /\ UNCHANGED <<config, env, args, app_list, i, calls, remote, conf>>
    /\ (args.mode # "set" => UNCHANGED hist)
    /\ \E echo_ok \in BOOLEAN :
        LET st == command_start(config, env, echo_ok)
        IN  IF st.outcome # "pass"
            THEN /\ log' = log \o st.ops
                 /\ EndAs(st.outcome)
                 /\ UNCHANGED <<run, out>>
                 /\ (args.mode = "set" => UNCHANGED hist)
            ELSE IF args.mode = "list"
            THEN \E ok \in BOOLEAN :
                 /\ log' = log \o st.ops \o <<SshExec(config, "list secrets", "-", ok)>>
                 /\ EndAs("done")
                 /\ UNCHANGED <<run, out>>
            ELSE IF args.mode = "edit"
            THEN \E ok \in BOOLEAN :
                 /\ log' = log \o st.ops \o
                       <<Op("ssh_edit", "sudo nano agent.env", "-", ok,
                            secrets_edit_cmd(config))>>
                 /\ out' = Append(out, "Done editing secrets")
                 /\ EndAs("done")
                 /\ UNCHANGED run
            ELSE IF args.mode = "set"
            THEN IF \E k \in 1..Len(args.secrets) : ~valid_secret(args.secrets[k])
                 THEN /\ log' = log \o st.ops
                      /\ EndAs("aborted")
                      /\ UNCHANGED <<run, out, hist>>
                 ELSE \E n \in 1..Len(args.secrets), net_ok \in BOOLEAN,
                         fails \in FailSets(set_cmd),
                         flaw \in {"none", "sed", "tee"},
                         found \in {<<>>, <<"K1=old">>} :
                      \* writes 1..n-1 succeeded; write n is the last one issued
                      LET r == ScriptRun(set_cmd, net_ok, fails)
                          \* which of sed and tee worked in each script: the
                          \* scripts before the last one share their flaw; a
                          \* script that did not reach the VM ran neither
                          flags == [k \in 1..Len(args.secrets) |->
                                      IF k < n THEN [sed |-> flaw # "sed", tee |-> flaw # "tee"]
                                      ELSE [sed |-> net_ok /\ 3 \notin fails,
                                            tee |-> net_ok /\ 4 \notin fails]]
                      IN  /\ (n < Len(args.secrets) => ~r.ok)
                          /\ (n = 1 => flaw = "none")
                          /\ hist' = [k \in 1..n |->
                                        [ok |-> k < n \/ r.ok,
                                         set |-> args.secrets[k],
                                         before |-> secrets_file(found, args.secrets, flags, k - 1),
                                         content |-> secrets_file(found, args.secrets, flags, k)]]
                          /\ log' = log \o st.ops \o
                                [k \in 1..n |->
                                    SshExec(config, "secrets set", args.secrets[k],
                                            k < n \/ r.ok)]
                          /\ run' = [r EXCEPT !.reported =
                                        IF r.ok THEN "success" ELSE "failure"]
                          /\ out' = Append(out, IF r.ok THEN "Secrets updated"
                                                ELSE "failure")
                          /\ EndAs(IF r.ok THEN "done" ELSE "aborted")
            ELSE /\ log' = log \o st.ops
                 /\ out' = Append(out, "Usage")
                 /\ EndAs("done")
                 /\ UNCHANGED run

\* VMManager.ssh, lines 178-209: interactive shell or one command
VmSsh ==
    /\ pc = "start"
    /\ args.command = "ssh"
    /\ UNCHANGED <<config, env, args, app_list, i, calls, remote, hist, run, conf, out>>
    /\ \E ok \in BOOLEAN :
        /\ log' = Append(log, Op("ssh", "shell", "-", ok, ssh_cmd(config)))
        /\ EndAs(IF ok THEN "done" ELSE "aborted")       \* VMError on failure

NoRun ==
    [script |-> None, cmds |-> <<>>, set_e |-> FALSE, fails |-> {}, ran |-> 0,
     ok |-> FALSE, found |-> None, reported |-> None]
NoConf == [stage |-> None]

(***************************************************************************)
(* Initial states and specifications.                                      *)
(***************************************************************************)
\* --apps absent, --apps "", or a comma list of up to MaxApps entries
AppsOptions == {<<>>, <<"">>} \cup UNION {[1..n -> AppEntries] : n \in 1..MaxApps}

Envs ==
    [gcloud : BOOLEAN, vm : {"ABSENT", "RUNNING", "TERMINATED"},
     local_apps : SUBSET {GATEWAY, WORKSTATION},
     repo_exists : BOOLEAN, config_exists : BOOLEAN,
     secrets_ok : BOOLEAN, iam : IamStates]

\* The environment of a command that runs no post-deploy hook
NoHooksEnv(e) == e.secrets_ok /\ e.iam = "granted"

SetupArgs ==
    [command : {"setup"}, apps : AppsOptions, skip_provision : BOOLEAN,
     app_dir : {None}, follow : {FALSE}, mode : {None}, secrets : {<<>>}]

InitSetup ==
    /\ config \in [ssh_host : {None, "10.0.0.5"}, ssh_user : {"root"},
                   ssh_key : {None}, ssh_port : {None}, project : {None, "proj"},
                   app_dir : {None}]
    /\ env \in Envs
    /\ use_direct_ssh(config) => env.vm = "ABSENT"    \* never read in direct mode
    /\ (config.project = None \/ ~env.gcloud) => env.iam = "granted"    \* never read
    /\ args \in SetupArgs
    /\ pc = "start"
    /\ app_list = <<>>
    /\ i = 0
    /\ log = <<>>
    /\ calls = <<>>
    /\ status = "running"
    /\ out = <<>>
    /\ remote = EmptyRemote
    /\ hist = <<>>
    /\ run = NoRun
    /\ conf = NoConf

CmdArgs ==
    [command : {"provision", "deploy", "ps", "restart", "ssh"}, apps : {<<>>},
     skip_provision : {FALSE}, app_dir : {None, "", "/opt/apps/myapp"},
     follow : {FALSE}, mode : {None}, secrets : {<<>>}]
    \cup
    [command : {"logs"}, apps : {<<>>}, skip_provision : {FALSE},
     app_dir : {None, "", "/opt/apps/myapp"}, follow : BOOLEAN, mode : {None},
     secrets : {<<>>}]
    \cup
    [command : {"secrets"}, apps : {<<>>}, skip_provision : {FALSE},
     app_dir : {None}, follow : {FALSE}, mode : {None, "list", "edit"},
     secrets : {<<>>}]
    \cup
    [command : {"secrets"}, apps : {<<>>}, skip_provision : {FALSE},
     app_dir : {None}, follow : {FALSE}, mode : {"set"},
     secrets : UNION {[1..n -> SecretArgs] : n \in 1..MaxSecrets}]

InitCmd ==
    /\ config \in [ssh_host : {None, "10.0.0.5"}, ssh_user : {None, "root"},
                   ssh_key : {None, "/path/to/key"}, ssh_port : {None, "2222"},
                   project : {"proj"}, app_dir : {None, "/srv/app"}]
    /\ env \in Envs
    /\ env.local_apps = {} /\ ~env.repo_exists /\ NoHooksEnv(env)
    /\ args \in CmdArgs
    /\ pc = "start"
    /\ app_list = <<>>
    /\ i = 0
    /\ log = <<>>
    /\ calls = <<>>
    /\ status = "running"
    /\ out = <<>>
    /\ remote = EmptyRemote
    /\ hist = <<>>
    /\ run = NoRun
    /\ conf = NoConf

(***************************************************************************)
(* _sync_app run repeatedly for one app against a remote tree left behind  *)
(* by earlier runs.                                                        *)
(***************************************************************************)
\* apps/<app> holding the given files
RemoteWith(app_name, files) ==
    [dirs |-> Prefixes(remote_app_path(app_name)),
     files |-> {remote_app_path(app_name) \o <<f>> : f \in files}]

InitialRemotes(app_name) ==
    {EmptyRemote, mkdir_p(EmptyRemote, REMOTE_APPS_PARENT),
     RemoteWith(app_name, StaleFiles), RemoteWith(app_name, LocalFiles),
     RemoteWith(app_name, LocalFiles \cup StaleFiles)}

InitSync ==
    /\ config \in [ssh_host : {None, "10.0.0.5"}, ssh_user : {"root"},
                   ssh_key : {None}, ssh_port : {None}, project : {None},
                   app_dir : {None}]
    /\ env \in Envs
    /\ env.gcloud /\ env.vm = "RUNNING" /\ env.config_exists /\ ~env.repo_exists
    /\ NoHooksEnv(env)
    /\ args = [command |-> "sync", apps |-> <<>>, skip_provision |-> FALSE,
               app_dir |-> None, follow |-> FALSE, mode |-> None, secrets |-> <<>>]
    /\ pc = "sync"
    /\ app_list \in {<<GATEWAY>>, <<WORKSTATION>>}
    /\ i = 1
    /\ log = <<>>
    /\ calls = <<>>
    /\ status = "running"
    /\ out = <<>>
    /\ remote \in InitialRemotes(app_list[1])
    /\ hist = <<>>
    /\ run = NoRun
    /\ conf = NoConf

\* One more run of _sync_app(vm, local_apps_dir, app_list[1])
SyncAgain ==
    /\ args.command = "sync"
    /\ Len(hist) < MaxSyncs
    /\ UNCHANGED <<config, env, args, pc, app_list, i, calls, status, out, run, conf>>
    /\ \E mk_ok \in BOOLEAN, rm_ok \in BOOLEAN, cp_ok \in BOOLEAN, copied \in PartialCopies :
        /\ sync_app(app_list[1], mk_ok, rm_ok, cp_ok, copied)
        /\ hist' = Append(hist,
               [ok |-> sync_app_result(app_list[1], mk_ok, cp_ok),
                removed |-> mk_ok /\ rm_ok,
                content |-> app_content(remote', app_list[1]),
                nested |-> nested(remote', app_list[1])])

NextSync == SyncAgain

\* Consecutive runs of the app sync step
SpecSync == InitSync /\ [][NextSync]_vars

(***************************************************************************)
(* VMConfig and its bash-format file (config/models.py).  A string is a    *)
(* sequence of characters; a run of characters that holds no quote, no     *)
(* whitespace, no "=" and no "#" may stand as one element.                 *)
(***************************************************************************)
NONE == <<"<None>">>                        \* Python None among the strings
AttributeError == <<"<AttributeError>">>    \* reading a field the class lacks
ValueError == <<"<ValueError>">>            \* a validator rejected the value

Chars == {"a", "\"", "'"}
Whitespace == {" ", "\t"}

Values == UNION {[1..n -> Chars] : n \in 0..MaxLen}

\* The fields VMConfig declares, in to_bash_format's order
VMConfigFields ==
    <<"vm_name", "zone", "project", "workstation_disk", "region", "app_dir">>

SshFields == {"ssh_host", "ssh_user", "ssh_key", "ssh_port"}

BashKey(f) ==
    CASE f = "vm_name" -> "VM_NAME"
      [] f = "zone" -> "ZONE"
      [] f = "project" -> "PROJECT"
      [] f = "workstation_disk" -> "WORKSTATION_DISK"
      [] f = "region" -> "REGION"
      [] f = "app_dir" -> "APP_DIR"

\* str.lower on the characters enumerated
lower(v) == [k \in 1..Len(v) |-> IF v[k] = "V" THEN "v" ELSE v[k]]

\* validate_vm_name, line 32: the longest name accepted
MAX_VM_NAME == 63

\* One element standing for a run of MAX_VM_NAME - 1 lower-case letters
LongRun == "vv...v"

\* The default instance name, one element standing for its 15 characters
DEFAULT_VM_NAME == "dev-workstation"

\* len(v), a run counted with its length
RECURSIVE str_len(_)
str_len(v) ==
    IF v = <<>> THEN 0
    ELSE (IF Head(v) = LongRun THEN MAX_VM_NAME - 1
          ELSE IF Head(v) = DEFAULT_VM_NAME THEN 15 ELSE 1) + str_len(Tail(v))

\* v[0].isalpha(): the element is a letter or starts with one
isalpha(ch) == ch \in {"v", "m", "V", "a", LongRun, DEFAULT_VM_NAME}

\* c.isalnum() or c == "-", for every character of the element
isalnum_or_hyphen(ch) == isalpha(ch) \/ ch \in {"1", "-"}

\* the length check left out
validate_vm_name_any_length(v) ==
    IF v = <<>> THEN ValueError
    ELSE IF ~isalpha(v[1]) THEN ValueError
    ELSE IF \E k \in 1..Len(v) : ~isalnum_or_hyphen(v[k]) THEN ValueError
    ELSE lower(v)

\* validate_vm_name, lines 22-34
validate_vm_name(v) ==
    IF v = <<>> THEN ValueError
    ELSE IF ~isalpha(v[1]) THEN ValueError
    ELSE IF \E k \in 1..Len(v) : ~isalnum_or_hyphen(v[k]) THEN ValueError
    ELSE IF str_len(v) > MAX_VM_NAME THEN ValueError
    ELSE lower(v)

\* validate_zone
validate_zone(v) == IF v = <<>> THEN ValueError ELSE v

\* VMConfig(**kwargs): declared fields only (pydantic ignores the others), None
\* for an absent optional field, the default for an absent vm_name or zone
VMConfig(kwargs) ==
    LET given(f) == f \in DOMAIN kwargs /\ kwargs[f] # NONE
        name == IF given("vm_name") THEN validate_vm_name(kwargs.vm_name)
                ELSE <<DEFAULT_VM_NAME>>
        zone == IF given("zone") THEN validate_zone(kwargs.zone)
                ELSE <<"us-central1-a">>
    IN  IF name = ValueError \/ zone = ValueError THEN [error |-> ValueError]
        ELSE [vm_name |-> name, zone |-> zone,
              project |-> IF given("project") THEN kwargs.project ELSE NONE,
              workstation_disk |-> IF given("workstation_disk")
                                   THEN kwargs.workstation_disk ELSE NONE,
              region |-> IF given("region") THEN kwargs.region ELSE NONE,
              app_dir |-> IF given("app_dir") THEN kwargs.app_dir ELSE NONE]

\* getattr(o, f)
Attr(o, f) == IF f \in DOMAIN o THEN o[f] ELSE AttributeError

\* `value or ""`
or_empty(v) == IF v = NONE THEN <<>> ELSE v

\* to_bash_format: KEY="value" per declared field, each line ended by a newline
RECURSIVE bash_lines(_, _)
bash_lines(c, k) ==
    IF k > Len(VMConfigFields) THEN <<>>
    ELSE <<BashKey(VMConfigFields[k]), "=", "\"">> \o or_empty(c[VMConfigFields[k]])
         \o <<"\"", "\n">> \o bash_lines(c, k + 1)

to_bash_format(c) == bash_lines(c, 1)

\* index of the first element of t that is in cs, 0 when there is none
first_index(t, cs) ==
    IF \E k \in 1..Len(t) : t[k] \in cs
    THEN CHOOSE k \in 1..Len(t) : t[k] \in cs /\ \A j \in 1..(k - 1) : t[j] \notin cs
    ELSE 0

\* str.splitlines
RECURSIVE splitlines(_)
splitlines(t) ==
    IF t = <<>> THEN <<>>
    ELSE LET k == first_index(t, {"\n"})
         IN  IF k = 0 THEN <<t>>
             ELSE <<SubSeq(t, 1, k - 1)>> \o splitlines(SubSeq(t, k + 1, Len(t)))

\* str.strip(chars)
RECURSIVE str_strip(_, _)
str_strip(t, cs) ==
    IF t = <<>> THEN t
    ELSE IF t[1] \in cs THEN str_strip(Tail(t), cs)
    ELSE IF t[Len(t)] \in cs THEN str_strip(SubSeq(t, 1, Len(t) - 1), cs)
    ELSE t

\* from_bash_format, lines 70-94: one line of the file applied to the values read
parse_line(acc, raw) ==
    LET line == str_strip(raw, Whitespace)
        eq == first_index(line, {"="})
        key == str_strip(SubSeq(line, 1, eq - 1), Whitespace)
        value == str_strip(str_strip(str_strip(SubSeq(line, eq + 1, Len(line)),
                                               Whitespace), {"\""}), {"'"})
        value_or_none == IF value = <<>> THEN NONE ELSE value
    IN  IF line = <<>> \/ line[1] = "#" \/ eq = 0 THEN acc
        ELSE IF \E k \in 1..Len(VMConfigFields) : key = <<BashKey(VMConfigFields[k])>>
        THEN LET f == CHOOSE f \in Range(VMConfigFields) : key = <<BashKey(f)>>
             IN  [acc EXCEPT ![f] = value_or_none]
        ELSE acc

RECURSIVE parse_lines(_, _)
parse_lines(acc, lines) ==
    IF lines = <<>> THEN acc
    ELSE parse_lines(parse_line(acc, Head(lines)), Tail(lines))

\* from_bash_format
from_bash_format(content) ==
    VMConfig(parse_lines([f \in Range(VMConfigFields) |-> NONE], splitlines(content)))

\* The keyword arguments a caller builds a configuration from
SshSettings ==
    {[ssh_host |-> NONE, ssh_user |-> NONE, ssh_key |-> NONE, ssh_port |-> NONE],
     [ssh_host |-> <<"10.0.0.5">>, ssh_user |-> <<"devuser">>,
      ssh_key |-> <<"/path/to/key">>, ssh_port |-> <<"2222">>]}

ConfigKwargs ==
    {[vm_name |-> n, zone |-> <<"us-central1-a">>, project |-> p,
      workstation_disk |-> NONE, region |-> NONE, app_dir |-> d,
      ssh_host |-> h.ssh_host, ssh_user |-> h.ssh_user, ssh_key |-> h.ssh_key,
      ssh_port |-> h.ssh_port] :
        n \in {NONE, <<"v", "m">>, <<"V", "m">>},
        p \in Values \cup {NONE},
        d \in {NONE, <<>>, <<"/srv/app">>},
        h \in SshSettings}
    \cup
    {[vm_name |-> n, zone |-> <<"us-central1-a">>, project |-> NONE,
      workstation_disk |-> NONE, region |-> NONE, app_dir |-> NONE,
      ssh_host |-> NONE, ssh_user |-> NONE, ssh_key |-> NONE,
      ssh_port |-> NONE] :
        \* names over a letter, a capital, a digit, a hyphen, an underscore, the run
        n \in UNION {[1..k -> {"v", "V", "1", "-", "_", LongRun}] : k \in 0..MaxName}}

\* Hand-written config files: each of these keys is absent (NONE), present with
\* an empty value, or present with a value; EDITOR is a key VMConfig does not know
ConfigFiles ==
    [VM_NAME : {NONE, <<>>, <<"v", "m">>}, PROJECT : {NONE, <<>>, <<"a">>},
     APP_DIR : {NONE, <<>>, <<"/srv/app">>}, SSH_HOST : {NONE, <<>>, <<"10.0.0.5">>},
     EDITOR : {NONE, <<>>, <<"a">>}]

\* The text of a file: one KEY="value" line per key present
file_text(f) ==
    LET line(key, v) == IF v = NONE THEN <<>>
                        ELSE <<key, "=", "\"">> \o v \o <<"\"", "\n">>
    IN  line("ZONE", <<"us-central1-a">>) \o line("VM_NAME", f.VM_NAME)
        \o line("PROJECT", f.PROJECT) \o line("APP_DIR", f.APP_DIR)
        \o line("SSH_HOST", f.SSH_HOST) \o line("EDITOR", f.EDITOR)

InitConfig ==
    /\ config = [ssh_host |-> None, ssh_user |-> None, ssh_key |-> None,
                 ssh_port |-> None, project |-> None, app_dir |-> None]
    /\ env \in Envs
    /\ env.gcloud /\ env.vm = "RUNNING" /\ env.config_exists /\ ~env.repo_exists
    /\ NoHooksEnv(env)
    /\ env.local_apps = {}
    /\ args = [command |-> "config", apps |-> <<>>, skip_provision |-> FALSE,
               app_dir |-> None, follow |-> FALSE, mode |-> None, secrets |-> <<>>]
    /\ pc = "start"
    /\ app_list = <<>>
    /\ i = 0
    /\ log = <<>>
    /\ calls = <<>>
    /\ status = "running"
    /\ out = <<>>
    /\ remote = EmptyRemote
    /\ hist = <<>>
    /\ run = NoRun
    /\ \/ \E kw \in ConfigKwargs :
             conf = [stage |-> "kwargs", kwargs |-> kw, obj |-> [error |-> NONE],
                     text |-> <<>>, parsed |-> [error |-> NONE], file |-> None,
                     upd |-> None, updated |-> [error |-> NONE],
                     loaded |-> [error |-> NONE]]
       \/ \E f \in ConfigFiles :
             conf = [stage |-> "file", kwargs |-> None, obj |-> [error |-> NONE],
                     text |-> file_text(f), parsed |-> [error |-> NONE],
                     file |-> f, upd |-> None, updated |-> [error |-> NONE],
                     loaded |-> [error |-> NONE]]

\* c = VMConfig(**kwargs)
Construct ==
    /\ conf.stage = "kwargs"
    /\ conf' = [conf EXCEPT !.stage = "constructed", !.obj = VMConfig(conf.kwargs)]
    /\ UNCHANGED <<config, env, args, pc, app_list, i, log, calls, status, out,
                   remote, hist, run>>

\* text = c.to_bash_format()
Serialize ==
    /\ conf.stage = "constructed"
    /\ "error" \notin DOMAIN conf.obj
    /\ conf' = [conf EXCEPT !.stage = "serialized", !.text = to_bash_format(conf.obj)]
    /\ UNCHANGED <<config, env, args, pc, app_list, i, log, calls, status, out,
                   remote, hist, run>>

\* VMConfig.from_bash_format(text)
Parse ==
    /\ conf.stage = "serialized"
    /\ conf' = [conf EXCEPT !.stage = "parsed", !.parsed = from_bash_format(conf.text)]
    /\ UNCHANGED <<config, env, args, pc, app_list, i, log, calls, status, out,
                   remote, hist, run>>

\* VMConfig.from_bash_format(content) on a hand-written file
ParseFile ==
    /\ conf.stage = "file"
    /\ conf' = [conf EXCEPT !.stage = "file parsed",
                             !.parsed = from_bash_format(conf.text)]
    /\ UNCHANGED <<config, env, args, pc, app_list, i, log, calls, status, out,
                   remote, hist, run>>

\* ConfigManager.update, lines 61-114: load, model_dump() overlaid with the
\* arguments that are not None, VMConfig(**updated_data), save; a
\* ValidationError leaves the file as it was
Update ==
    /\ conf.stage = "parsed"
    /\ \E n \in {NONE, <<"v">>, <<"_">>}, p \in {NONE, <<"a">>, <<>>},
          h \in {NONE, <<"10.0.0.5">>} :
        LET upd == [vm_name |-> n, zone |-> NONE, project |-> p,
                    workstation_disk |-> NONE, region |-> NONE, ssh_host |-> h,
                    ssh_user |-> NONE, ssh_key |-> NONE, ssh_port |-> NONE]
            current == from_bash_format(conf.text)
            updated_data ==
                [f \in DOMAIN current \cup {g \in DOMAIN upd : upd[g] # NONE} |->
                    IF f \in DOMAIN upd /\ upd[f] # NONE THEN upd[f] ELSE current[f]]
            updated == IF "error" \in DOMAIN current THEN current
                       ELSE VMConfig(updated_data)
        IN  conf' = IF "error" \in DOMAIN updated
                    THEN [conf EXCEPT !.stage = "update failed", !.upd = upd]
                    ELSE [conf EXCEPT !.stage = "updated", !.upd = upd,
                                      !.updated = updated,
                                      !.text = to_bash_format(updated)]
    /\ UNCHANGED <<config, env, args, pc, app_list, i, log, calls, status, out,
                   remote, hist, run>>

\* ConfigManager(config_dir).load() by a fresh manager after the update
Reload ==
    /\ conf.stage = "updated"
    /\ conf' = [conf EXCEPT !.stage = "reloaded",
                             !.loaded = from_bash_format(conf.text)]
    /\ UNCHANGED <<config, env, args, pc, app_list, i, log, calls, status, out,
                   remote, hist, run>>

NextConfig ==
    \/ Construct
    \/ Serialize
    \/ Parse
    \/ ParseFile
    \/ Update
    \/ Reload

\* A configuration built, written in bash format and read back
SpecConfig == InitConfig /\ [][NextConfig]_vars

NextSetup ==
    \/ SetupStart
    \/ SetupProvision
    \/ SetupBootstrap
    \/ SetupGatewayRepo
    \/ SetupSync
    \/ SetupDeploy
    \/ SetupHooks
    \/ SetupFinish

NextCmd ==
    \/ Provision
    \/ Deploy
    \/ DockerPs
    \/ DockerLogs
    \/ Restart
    \/ Secrets
    \/ VmSsh

Init == InitSetup \/ InitCmd

Next == NextSetup \/ NextCmd

\* One run of `vmctl setup`
SpecSetup == InitSetup /\ [][NextSetup]_vars

\* One run of a single-script command
SpecCmd == InitCmd /\ [][NextCmd]_vars

\* One invocation of the vmctl command line
Spec == Init /\ [][Next]_vars

(***************************************************************************)
(* The VM lifecycle commands (start, stop, delete) and the restore of the  *)
(* data disk from a snapshot.  Here args is [command, yes], env is         *)
(* [gcloud, vm, config_exists] and env.vm follows the operations.          *)
(***************************************************************************)
\* One gcloud command of VMManager / DiskManager in `log`
GcloudOp(op, sub, ok) == Op(op, sub, "-", ok, GcloudCmd(sub, FALSE))

\* VMManager.exists: the success of the describe query
vm_exists(e) == Op("exists", "describe", "-", e.vm # "ABSENT", describe_cmd)

\* VMManager.status: the status the describe query prints, or VMError
vm_status(e, ok) ==
    Op("status", IF ok THEN e.vm ELSE "VMError", "-", ok, describe_cmd)

\* a start issued whatever the status
start_needed_always(st) == TRUE

\* start, lines 68-72: no start of a running instance
start_needed(st) == st # "RUNNING"

\* stop, lines 92-96: no stop of a stopped instance
stop_needed(st) == st # "TERMINATED"

\* start and stop: exists, status, then the operation unless it is a no-op;
\* GCloudError (no gcloud binary) is not a VMError and escapes the handler
Lifecycle(verb, needed, reached, already) ==
    IF ~env.gcloud
    THEN /\ log' = Append(log, GcloudOp("exists", "compute instances describe", FALSE))
         /\ EndAs("crashed")
         /\ UNCHANGED <<env, out>>
    ELSE IF env.vm = "ABSENT"
    THEN /\ log' = Append(log, vm_exists(env))
         /\ EndAs("aborted")
         /\ UNCHANGED <<env, out>>
    ELSE \E st_ok \in BOOLEAN, op_ok \in BOOLEAN :
         IF ~st_ok
         THEN /\ log' = log \o <<vm_exists(env), vm_status(env, FALSE)>>
              /\ EndAs("aborted")
              /\ UNCHANGED <<env, out>>
         ELSE IF ~needed
         THEN /\ log' = log \o <<vm_exists(env), vm_status(env, TRUE)>>
              /\ out' = Append(out, already)
              /\ EndAs("done")
              /\ UNCHANGED env
         ELSE /\ log' = log \o <<vm_exists(env), vm_status(env, TRUE),
                                 GcloudOp(verb, "compute instances " \o verb, op_ok)>>
              /\ env' = IF op_ok THEN [env EXCEPT !.vm = reached] ELSE env
              /\ EndAs(IF op_ok THEN "done" ELSE "aborted")
              /\ UNCHANGED out

\* start, vm_commands.py lines 50-76
VmStart ==
    /\ pc = "start"
    /\ args.command = "start"
    /\ UNCHANGED <<config, args, app_list, i, calls, remote, hist, run, conf>>
    /\ IF ~env.config_exists
       THEN EndAs("aborted") /\ UNCHANGED <<env, log, out>>
       ELSE Lifecycle("start", start_needed(env.vm), "RUNNING", "already running")

\* stop, vm_commands.py lines 79-100
VmStop ==
    /\ pc = "start"
    /\ args.command = "stop"
    /\ UNCHANGED <<config, args, app_list, i, calls, remote, hist, run, conf>>
    /\ Lifecycle("stop", stop_needed(env.vm), "TERMINATED", "already stopped")

\* every answer taken for a yes
proceeds_always(yes, answer) == TRUE

\* delete lines 261-266, restore lines 60-70: --yes, or the prompt answered yes
proceeds(yes, answer) == yes \/ answer = "y"

\* The prompt of delete and restore (click.confirm answers yes or no, or raises
\* click.Abort when the input ends); `calls` takes the prompt with its answer
\* and the manager method entered when the user agreed
Confirmation(method, after) ==
    \E answer \in {"y", "n", "eof"} :
        LET asked == IF args.yes THEN <<>>
                     ELSE <<[step |-> "confirm", answer |-> answer]>>
        IN  IF ~args.yes /\ answer = "eof"
            THEN /\ calls' = calls \o asked
                 /\ EndAs("aborted")
                 /\ UNCHANGED out
            ELSE IF ~proceeds(args.yes, answer)
            THEN /\ calls' = calls \o asked
                 /\ out' = Append(out, "Cancelled")
                 /\ EndAs("done")
            ELSE /\ calls' = calls \o asked \o <<[step |-> method]>>
                 /\ pc' = after
                 /\ UNCHANGED <<status, out>>

\* delete, vm_commands.py lines 244-266: up to the confirmation
VmDelete ==
    /\ pc = "start"
    /\ args.command = "delete"
    /\ UNCHANGED <<config, env, args, app_list, i, remote, hist, run, conf>>
    /\ IF ~env.gcloud
       THEN /\ log' = Append(log, GcloudOp("exists", "compute instances describe", FALSE))
            /\ EndAs("crashed")
            /\ UNCHANGED <<calls, out>>
       ELSE /\ log' = Append(log, vm_exists(env))
            /\ IF env.vm = "ABSENT"
               THEN /\ out' = Append(out, "does not exist")
                    /\ EndAs("done")
                    /\ UNCHANGED calls
               ELSE Confirmation("VMManager.delete", "vm_delete")

\* delete, line 268: VMManager.delete
VmDeleteInstance ==
    /\ pc = "vm_delete"
    /\ UNCHANGED <<config, args, app_list, i, calls, out, remote, hist, run, conf>>
    /\ \E ok \in BOOLEAN :
        /\ log' = Append(log, GcloudOp("delete", "compute instances delete", ok))
        /\ env' = IF ok THEN [env EXCEPT !.vm = "ABSENT"] ELSE env
        /\ EndAs(IF ok THEN "done" ELSE "aborted")

\* restore, backup_commands.py lines 41-72: up to the confirmation
Restore ==
    /\ pc = "start"
    /\ args.command = "restore"
    /\ UNCHANGED <<config, env, args, app_list, i, log, remote, hist, run, conf>>
    /\ Confirmation("DiskManager.restore", "restore_stop")

\* a restore that goes on after a failed step
restore_step_goes_on(ok, next) == pc' = next /\ UNCHANGED status

\* DiskManager.restore, lines 121-173: one try block, the next step is reached
\* when this one raised nothing; any exception becomes DiskError and the
\* command exits 1
restore_step(ok, next) ==
    IF ok THEN pc' = next /\ UNCHANGED status ELSE EndAs("aborted")

\* DiskManager.restore, lines 125-132; every exception becomes DiskError
RestoreStopVm ==
    /\ pc = "restore_stop"
    /\ UNCHANGED <<config, args, app_list, i, calls, out, remote, hist, run, conf>>
    /\ IF ~env.gcloud
       THEN /\ log' = Append(log, GcloudOp("exists", "compute instances describe", FALSE))
            /\ EndAs("aborted")
            /\ UNCHANGED env
       ELSE IF env.vm = "ABSENT"
       THEN /\ log' = Append(log, vm_exists(env))
            /\ pc' = "disk_delete"
            /\ UNCHANGED <<env, status>>
       ELSE \E st_ok \in BOOLEAN, op_ok \in BOOLEAN :
            IF ~st_ok
            THEN /\ log' = log \o <<vm_exists(env), vm_status(env, FALSE)>>
                 /\ EndAs("aborted")
                 /\ UNCHANGED env
            ELSE IF env.vm # "RUNNING"       \* stopped only when it runs
            THEN /\ log' = log \o <<vm_exists(env), vm_status(env, TRUE)>>
                 /\ pc' = "disk_delete"
                 /\ UNCHANGED <<env, status>>
            ELSE /\ log' = log \o <<vm_exists(env), vm_status(env, TRUE),
                                    GcloudOp("stop", "compute instances stop", op_ok)>>
                 /\ env' = IF op_ok THEN [env EXCEPT !.vm = "TERMINATED"] ELSE env
                 /\ restore_step(op_ok, "disk_delete")

\* the disk creation left out
after_disk_delete_starts_vm == "vm_start"

\* DiskManager.restore: what follows the deletion of the data disk
after_disk_delete == "disk_create"

\* DiskManager.restore, lines 134-147
RestoreDeleteDisk ==
    /\ pc = "disk_delete"
    /\ UNCHANGED <<config, args, app_list, i, calls, out, remote, hist, run, conf>>
    /\ \E ok \in BOOLEAN :
        /\ log' = Append(log, GcloudOp("disk_delete", "compute disks delete", ok))
        /\ env' = IF ok THEN [env EXCEPT !.disk = "deleted"] ELSE env
        /\ restore_step(ok, after_disk_delete)

\* DiskManager.restore, lines 149-163
RestoreCreateDisk ==
    /\ pc = "disk_create"
    /\ UNCHANGED <<config, args, app_list, i, calls, out, remote, hist, run, conf>>
    /\ \E ok \in BOOLEAN :
        /\ log' = Append(log, GcloudOp("disk_create", "compute disks create", ok))
        /\ env' = IF ok THEN [env EXCEPT !.disk = "from snapshot"] ELSE env
        /\ restore_step(ok, "vm_start")

\* DiskManager.restore, lines 165-170, and restore lines 72-75
RestoreStartVm ==
    /\ pc = "vm_start"
    /\ UNCHANGED <<config, args, app_list, i, calls, remote, hist, run, conf>>
    /\ \E ok \in BOOLEAN :
        /\ log' = Append(log, GcloudOp("start", "compute instances start", ok))
        /\ env' = IF ok THEN [env EXCEPT !.vm = "RUNNING"] ELSE env
        /\ out' = IF ok THEN Append(out, "Restore completed successfully") ELSE out
        /\ EndAs(IF ok THEN "done" ELSE "aborted")

InitVm ==
    /\ config = [ssh_host |-> None, ssh_user |-> None, ssh_key |-> None,
                 ssh_port |-> None, project |-> "proj", app_dir |-> None]
    /\ env \in [gcloud : BOOLEAN, vm : {"ABSENT", "RUNNING", "TERMINATED", "SUSPENDED"},
                config_exists : BOOLEAN, disk : {"data"}]
    /\ args \in [command : {"start", "stop", "delete", "restore"}, yes : BOOLEAN]
    /\ pc = "start"
    /\ app_list = <<>>
    /\ i = 0
    /\ log = <<>>
    /\ calls = <<>>
    /\ status = "running"
    /\ out = <<>>
    /\ remote = EmptyRemote
    /\ hist = <<>>
    /\ run = NoRun
    /\ conf = NoConf

NextVm ==
    \/ VmStart
    \/ VmStop
    \/ VmDelete
    \/ VmDeleteInstance
    \/ Restore
    \/ RestoreStopVm
    \/ RestoreDeleteDisk
    \/ RestoreCreateDisk
    \/ RestoreStartVm

\* One run of a lifecycle command
SpecVm == InitVm /\ [][NextVm]_vars

(***************************************************************************)
(* TunnelManager: a background tunnel process and its stop.  env.procs is  *)
(* the state of every child process started, conf._process the tracked     *)
(* handle (<<>> for None), log the calls made on Popen objects.            *)
(***************************************************************************)
\* every tracked process taken as still running
still_running_always(state) == TRUE

\* stop, line 97: `self._process.poll() is None`
still_running(state) == state = "running"

ProcOp(op, pid, ok) == [op |-> op, pid |-> pid, ok |-> ok]

\* start(background=True), lines 58-70: Popen may fail
TunnelStart ==
    /\ Len(env.procs) < MaxStarts /\ Len(calls) < MaxCalls
    /\ \E popen_ok \in BOOLEAN :
         IF popen_ok
         THEN /\ env' = [env EXCEPT !.procs = Append(@, "running")]
              /\ conf' = [conf EXCEPT !._process = <<Len(env.procs) + 1>>]
              /\ calls' = Append(calls, Call("start", "-", TRUE))
              /\ status' = "done"
         ELSE /\ calls' = Append(calls, Call("start", "-", FALSE))
              /\ status' = "TunnelError"
              /\ UNCHANGED <<env, conf>>
    /\ UNCHANGED <<config, args, pc, app_list, i, log, out, remote, hist, run>>

\* the child process ends on its own
ProcessExits ==
    /\ \E p \in 1..Len(env.procs) :
         /\ env.procs[p] = "running"
         /\ env' = [env EXCEPT !.procs[p] = "exited"]
    /\ UNCHANGED <<config, args, pc, app_list, i, log, calls, status, out, remote,
                   hist, run, conf>>

\* stop, lines 88-113
TunnelStop ==
    /\ Len(calls) < MaxCalls
    /\ UNCHANGED <<config, args, pc, app_list, i, out, remote, hist, run>>
    /\ IF conf._process = <<>>
       THEN /\ calls' = Append(calls, Call("stop", "-", FALSE))
            /\ status' = "TunnelError"
            /\ UNCHANGED <<env, conf, log>>
       ELSE \E poll_ok \in BOOLEAN, term_ok \in BOOLEAN,
               wait \in {"exited", "TimeoutExpired", "Exception"}, kill_ok \in BOOLEAN :
            LET p == conf._process[1]
                poll == ProcOp("poll", p, poll_ok)
                term == ProcOp("send_signal", p, term_ok)
                waited == ProcOp("wait", p, wait = "exited")
                kill == ProcOp("kill", p, kill_ok)
                \* what the try block did, and how stop ended
                did ==
                    IF ~poll_ok THEN [ops |-> <<poll>>, st |-> "TunnelError", proc |-> env.procs[p]]
                    ELSE IF ~still_running(env.procs[p])
                    THEN [ops |-> <<poll>>, st |-> "done", proc |-> env.procs[p]]
                    ELSE IF ~term_ok
                    THEN [ops |-> <<poll, term>>, st |-> "TunnelError", proc |-> env.procs[p]]
                    ELSE IF wait = "exited"
                    THEN [ops |-> <<poll, term, waited>>, st |-> "done", proc |-> "exited"]
                    ELSE IF wait = "Exception"
                    THEN [ops |-> <<poll, term, waited>>, st |-> "TunnelError", proc |-> env.procs[p]]
                    ELSE IF kill_ok
                    THEN [ops |-> <<poll, term, waited, kill>>, st |-> "done", proc |-> "exited"]
                    \* an exception raised in the except clause leaves stop as it is
                    ELSE [ops |-> <<poll, term, waited, kill>>, st |-> "crashed", proc |-> env.procs[p]]
            IN  /\ log' = log \o did.ops
                /\ env' = [env EXCEPT !.procs[p] = did.proc]
                /\ calls' = Append(calls, Call("stop", "-", did.st = "done"))
                /\ status' = did.st
                /\ conf' = [conf EXCEPT !._process = <<>>]      \* finally

\* __init__, lines 18-29
InitTunnel ==
    /\ config = [ssh_host |-> None, ssh_user |-> None, ssh_key |-> None,
                 ssh_port |-> None, project |-> "proj", app_dir |-> None]
    /\ env = [procs |-> <<>>]
    /\ args = [command |-> "tunnel"]
    /\ pc = "start"
    /\ app_list = <<>>
    /\ i = 0
    /\ log = <<>>
    /\ calls = <<>>
    /\ status = "running"
    /\ out = <<>>
    /\ remote = EmptyRemote
    /\ hist = <<>>
    /\ run = NoRun
    /\ conf = [_process |-> <<>>]

NextTunnel ==
    \/ TunnelStart
    \/ ProcessExits
    \/ TunnelStop

\* A TunnelManager whose start and stop are called in any order
SpecTunnel == InitTunnel /\ [][NextTunnel]_vars

(***************************************************************************)
(* Legacy configuration migration.  env holds the home directory: the two *)
(* legacy directories, the new directory and its .migrated marker; a       *)
(* directory is [exists, items], items being names at its top level.       *)
(***************************************************************************)
\* items enumerated: "config" a file, "keys" a directory, "socket" neither,
\* ".migrated" the marker of an earlier migration
NoDir == [exists |-> FALSE, items |-> {}]
Dir(S) == [exists |-> TRUE, items |-> S]

\* _find_legacy_dir, lines 26-36: .codestation before .vmws
find_legacy_dir(e) ==
    IF e.codestation.exists THEN e.codestation
    ELSE IF e.vmws.exists THEN e.vmws
    ELSE NoDir

\* a check that looks at the new directory only
needs_migration_ignores_marker(e) ==
    find_legacy_dir(e).exists /\ ~e.new.exists

\* needs_migration, lines 38-56
needs_migration(e) ==
    IF ~find_legacy_dir(e).exists THEN FALSE
    ELSE IF ~e.new.exists THEN TRUE
    ELSE IF ~e.marker THEN TRUE
    ELSE FALSE

\* migrate, lines 78-90: what the loop copies (is_file or is_dir, never the marker)
copied_items(legacy) == legacy.items \ {".migrated", "socket"}

\* a new ConfigManager, lines 13-21: one per command invocation
NewManager ==
    /\ conf' = [_migration_checked |-> FALSE, _config |-> None]
    /\ conf' # conf
    /\ UNCHANGED <<config, env, args, pc, app_list, i, log, calls, status, out,
                   remote, hist, run>>

\* ConfigManager.load, lines 23-49, with ConfigMigration.migrate, lines 58-107
ManagerLoad ==
    /\ Len(calls) < MaxLoads
    /\ UNCHANGED <<config, args, pc, app_list, i, log, status, out, remote, hist, run>>
    /\ \E fail \in {"none", "mkdir", "copy", "marker"},
          arrived \in SUBSET copied_items(find_legacy_dir(env)) :
         LET attempt == ~conf._migration_checked /\ needs_migration(env)
             all == copied_items(find_legacy_dir(env))
             after ==
                 IF ~attempt THEN env
                 ELSE IF fail = "mkdir" THEN env
                 ELSE IF fail = "copy"
                 THEN [env EXCEPT !.new = Dir(env.new.items \cup arrived)]
                 ELSE IF fail = "marker"
                 THEN [env EXCEPT !.new = Dir(env.new.items \cup all)]
                 ELSE [env EXCEPT !.new = Dir(env.new.items \cup all), !.marker = TRUE]
         IN  \* mkdir(exist_ok=True) fails only where it has to create; a failed
             \* copy left something out; outcomes are told apart only in an attempt
             /\ fail = "mkdir" => ~env.new.exists
             /\ fail = "copy" <=> arrived # all
             /\ ~attempt => fail = "none"
             /\ env' = after
             /\ calls' = Append(calls, [step |-> "load", app |-> "-",
                                        attempted |-> attempt,
                                        ok |-> attempt /\ fail = "none"])
             /\ conf' = [_migration_checked |-> TRUE,
                         _config |-> IF conf._config # None THEN conf._config
                                     ELSE IF "config" \in after.new.items THEN "file"
                                     ELSE "default"]

InitMigration ==
    /\ config = [ssh_host |-> None, ssh_user |-> None, ssh_key |-> None,
                 ssh_port |-> None, project |-> "proj", app_dir |-> None]
    /\ env \in [vmws : {NoDir, Dir({"config"})},
                codestation : {NoDir} \cup {Dir(S) : S \in SUBSET {"config", "keys", "socket", ".migrated"}},
                new : {NoDir, Dir({}), Dir({"config"})},
                marker : BOOLEAN]
    /\ env.marker => env.new.exists
    /\ args = [command |-> "load"]
    /\ pc = "start"
    /\ app_list = <<>>
    /\ i = 0
    /\ log = <<>>
    /\ calls = <<>>
    /\ status = "running"
    /\ out = <<>>
    /\ remote = EmptyRemote
    /\ hist = <<>>
    /\ run = NoRun
    /\ conf = [_migration_checked |-> FALSE, _config |-> None]

NextMigration ==
    \/ NewManager
    \/ ManagerLoad

\* Loads of the configuration by one manager after the other
SpecMigration == InitMigration /\ [][NextMigration]_vars

(***************************************************************************)
(* Properties of setup.                                                    *)
(***************************************************************************)
IsSyncOrDeploy(c) == c.step \in {"sync", "deploy"}

\* The steps whose failure ends the run
FatalSteps == {"provision", "bootstrap", "repo_sync", "sync", "deploy"}

\* The external commands whose result a fatal step checks
CheckedOps ==
    {"provision script", "mkdir script", "mkdir -p apps", "scp -r app",
     "scp -r repo", "deploy script"}

TransportOps == {"ssh_exec", "ssh", "scp", "ssh_edit"}

\* C1: the sync and deploy calls of a setup run are sync a1, deploy a1, sync a2,
\* deploy a2, ... in app-list order; only the last of them can have failed (a
\* failed deploy of a_i is followed by no call for a later app), and a run that
\* completes has made all of them.
C1_SyncDeployInListOrder ==
    LET sd == SelectSeq(calls, IsSyncOrDeploy)
    IN  /\ Len(sd) <= 2 * Len(app_list)
        /\ \A k \in 1..Len(sd) :
              /\ sd[k].step = (IF k % 2 = 1 THEN "sync" ELSE "deploy")
              /\ sd[k].app = app_list[(k + 1) \div 2]
              /\ (k < Len(sd) => sd[k].ok)
        /\ (status = "done" =>
              Len(sd) = 2 * Len(app_list) /\ \A k \in 1..Len(sd) : sd[k].ok)

\* C1 witness: the deploy of the first of two apps failed and the run ended
C1_Witness ==
    /\ pc = "end"
    /\ app_list = <<GATEWAY, WORKSTATION>>
    /\ SelectSeq(calls, IsSyncOrDeploy) =
          <<Call("sync", GATEWAY, TRUE), Call("deploy", GATEWAY, FALSE)>>

\* A setup invocation naming an app that is not in the local apps directory
MissingApp ==
    /\ args.command = "setup"
    /\ \E k \in 1..Len(parse_apps(args.apps)) :
          parse_apps(args.apps)[k] \notin env.local_apps

\* C2 as stated: with a missing app, no ssh_exec or scp call is ever made under
\* either backend, and the run does not exit 0.
C2_NoTransportCallAtAll ==
    MissingApp =>
        /\ \A k \in 1..Len(log) : log[k].op \notin {"ssh_exec", "scp"}
        /\ status # "done"

\* C2 amended: with a missing app the run makes no scp call and no ssh_exec call
\* other than the single "echo ok" reachability probe of the direct backend (none
\* at all under the gcloud backend), and it does not exit 0.
C2_OnlyTheReachabilityProbe ==
    MissingApp =>
        /\ \A k \in 1..Len(log) :
              log[k].op \in {"ssh_exec", "scp"} =>
                 /\ use_direct_ssh(config)
                 /\ k = 1
                 /\ log[k].op = "ssh_exec"
                 /\ log[k].what = "echo ok"
        /\ status # "done"
        /\ pc \in {"start", "end"}
        /\ remote = EmptyRemote

\* C2 witness: direct backend, probe answered, pre-flight rejected the list
C2_Witness ==
    /\ MissingApp
    /\ pc = "end"
    /\ use_direct_ssh(config)
    /\ calls = <<Call("check_vm_running", "-", TRUE), Call("preflight", "-", FALSE)>>
    /\ Len(log) = 1

\* C3: a failed provisioning script, bootstrap, sync or deploy is the last step
\* of the run and its failed command the last external command; the run is
\* aborted (exit 1) and "Setup complete" is never printed.
C3_FatalFailureStopsTheRun ==
    args.command = "setup" =>
        /\ \A k \in 1..Len(calls) :
              (calls[k].step \in FatalSteps /\ ~calls[k].ok) =>
                 /\ k = Len(calls)
                 /\ status = "aborted"
                 /\ pc = "end"
                 /\ "Setup complete" \notin Range(out)
        /\ \A k \in 1..Len(log) :
              (log[k].what \in CheckedOps /\ ~log[k].ok) =>
                 /\ k = Len(log)
                 /\ status = "aborted"
                 /\ calls[Len(calls)].step \in FatalSteps
                 /\ ~calls[Len(calls)].ok

\* C3 witness: the second app's deploy failed after the first app was deployed
C3_Witness ==
    /\ Len(app_list) = 2
    /\ status = "aborted"
    /\ Len(calls) > 0
    /\ calls[Len(calls)] = Call("deploy", app_list[2], FALSE)
    /\ \E k \in 1..Len(calls) : calls[k] = Call("deploy", app_list[1], TRUE)
    /\ ~log[Len(log)].ok

BootstrapCalls == {k \in 1..Len(calls) : calls[k].step = "bootstrap"}

PastPreflight ==
    \E k \in 1..Len(calls) : calls[k] = Call("preflight", "-", TRUE)

\* C4 as stated: every run that got past pre-flight and has ended invoked the
\* bootstrap script exactly once.
C4_BootstrapExactlyOnce ==
    (args.command = "setup" /\ PastPreflight /\ pc = "end") =>
        Cardinality(BootstrapCalls) = 1

\* C4 amended: the bootstrap script is invoked at most once, after the
\* provisioning step and before every repo sync, sync, deploy and hook; it has
\* been invoked exactly once in every run that is past provisioning, and not at
\* all in a run whose provisioning failed.
C4_BootstrapOnceAfterProvision ==
    args.command = "setup" =>
        /\ Cardinality(BootstrapCalls) <= 1
        /\ Cardinality({k \in 1..Len(log) : log[k].what = "mkdir script"})
              = Cardinality(BootstrapCalls)
        /\ \A k \in 1..Len(calls) :
              /\ calls[k].step \in {"check_vm_running", "preflight", "provision"} =>
                    \A b \in BootstrapCalls : k < b
              /\ calls[k].step \in {"repo_sync", "sync", "deploy",
                                     "check_agent_secrets",
                                     "grant_bigquery_permissions"} =>
                    \E b \in BootstrapCalls : b < k /\ calls[b].ok
              /\ (calls[k].step = "provision" /\ ~calls[k].ok) =>
                    BootstrapCalls = {}
        /\ pc \in {"repo", "sync", "deploy", "hooks"} =>
              Cardinality(BootstrapCalls) = 1
        /\ (pc = "end" /\ PastPreflight /\ Cardinality(BootstrapCalls) = 0) =>
              calls[Len(calls)] = Call("provision", "-", FALSE)

\* C4 witness: a completed run that provisioned, bootstrapped and deployed two apps
C4_Witness ==
    /\ status = "done"
    /\ ~args.skip_provision
    /\ Len(app_list) = 2
    /\ Cardinality(BootstrapCalls) = 1
    /\ \E k \in 1..Len(calls) : calls[k].step = "provision"

\* C9 as stated: every gateway-specific step (repo sync, secrets check, IAM
\* grant) comes after a successful deploy of the gateway app.
C9_GatewayStepsOnlyAsPostHooks ==
    \A k \in 1..Len(calls) :
        calls[k].step \in {"repo_sync", "check_agent_secrets",
                           "grant_bigquery_permissions"} =>
           \E d \in 1..(k - 1) : calls[d] = Call("deploy", GATEWAY, TRUE)

\* The step order of setup: which step may directly follow which
FollowsInSetup(a, b) ==
    \/ a.step = "check_vm_running" /\ b.step = "preflight"
    \/ a.step = "preflight" /\ b.step = "provision" /\ ~args.skip_provision
    \/ a.step = "preflight" /\ b.step = "bootstrap" /\ args.skip_provision
    \/ a.step = "provision" /\ b.step = "bootstrap"
    \/ a.step = "bootstrap" /\ b.step = "repo_sync"
    \/ a.step \in {"bootstrap", "repo_sync"} /\ b.step = "sync" /\ b.app = app_list[1]
    \/ a.step = "sync" /\ b.step = "deploy" /\ b.app = a.app
    \/ a.step = "deploy" /\ a.app = GATEWAY /\ b.step = "check_agent_secrets"
    \/ a.step = "check_agent_secrets" /\ b.step = "grant_bigquery_permissions"
    \/ /\ \/ a.step = "deploy" /\ a.app # GATEWAY
          \/ a.step = "check_agent_secrets" /\ config.project = None
          \/ a.step = "grant_bigquery_permissions"
       /\ b.step = "sync"

\* C9 amended: the steps follow START -> [Provision] -> Bootstrap -> [repo sync]
\* -> (Sync_i -> Deploy_i -> hooks_i)* -> DONE, each step entered only after the
\* one before it succeeded; the gateway repo sync runs at most once, after the
\* bootstrap and before the first app sync, only when the gateway app is in the
\* list; the secrets check and the IAM grant run only directly after a
\* successful deploy of the gateway app.
C9_SetupStepOrder ==
    args.command = "setup" =>
        /\ \A k \in 1..Len(calls) :
              /\ k = 1 => calls[k].step = "check_vm_running"
              /\ k > 1 =>
                    /\ FollowsInSetup(calls[k - 1], calls[k])
                    /\ calls[k - 1].step \in FatalSteps \cup {"check_vm_running",
                                                              "preflight"}
                          => calls[k - 1].ok
              /\ calls[k].step \in {"repo_sync", "check_agent_secrets",
                                     "grant_bigquery_permissions"} =>
                    GATEWAY \in Range(app_list)
              /\ calls[k].step = "repo_sync" =>
                    \A j \in 1..Len(calls) :
                       /\ calls[j].step = "repo_sync" => j = k
                       /\ calls[j].step \in {"sync", "deploy"} => k < j
              /\ calls[k].step = "check_agent_secrets" =>
                    k > 1 /\ calls[k - 1] = Call("deploy", GATEWAY, TRUE)
              /\ calls[k].step = "grant_bigquery_permissions" =>
                    k > 2 /\ calls[k - 2] = Call("deploy", GATEWAY, TRUE)
        /\ status = "done" =>
              /\ Len(SelectSeq(calls, IsSyncOrDeploy)) = 2 * Len(app_list)
              /\ \A j \in 1..Len(app_list) :
                    app_list[j] = GATEWAY =>
                       \E k \in 1..Len(calls) : calls[k].step = "check_agent_secrets"

\* C9 witness: a completed run over both apps with the repo sync and both hooks
C9_Witness ==
    /\ status = "done"
    /\ app_list = <<GATEWAY, WORKSTATION>>
    /\ \E k \in 1..Len(calls) : calls[k].step = "repo_sync"
    /\ \E k \in 1..Len(calls) : calls[k].step = "grant_bigquery_permissions"
    /\ calls[Len(calls)] = Call("deploy", WORKSTATION, TRUE)

\* C10: a run that has ended and in which every fatal step (and both
\* pre-checks) succeeded has ended in DONE with "Setup complete", whatever the
\* secrets check and the IAM grant did.
C10_HooksNeverEndTheRun ==
    (/\ args.command = "setup"
     /\ pc = "end"
     /\ PastPreflight
     /\ \A k \in 1..Len(calls) : calls[k].step \in FatalSteps => calls[k].ok) =>
        /\ status = "done"
        /\ "Setup complete" \in Range(out)

C8_ScriptsFailFast ==
    run.script # None =>
        \A k \in run.fails :
            k <= run.ran =>
                /\ run.ran = k
                /\ ~run.ok
                /\ run.reported # "success"

\* C5: every remote operation (command execution, interactive shell, file
\* copy, secrets editor) is built by the backend that ssh_host selects: with
\* ssh_host set, an ssh/scp command line with the backend's options and
\* target; with ssh_host unset, a gcloud command line tunnelled through IAP.
C5_TransportFollowsSshHost ==
    \A k \in 1..Len(log) :
        log[k].op \in TransportOps =>
            IF use_direct_ssh(config)
            THEN /\ log[k].cmd.prog \in {"ssh", "scp"}
                 /\ log[k].cmd = DirectCmd(log[k].cmd.prog, config, log[k].cmd.tty)
            ELSE /\ log[k].cmd.prog = "gcloud"
                 /\ log[k].cmd.iap

(***************************************************************************)
(* Properties of the configuration file format.                            *)
(***************************************************************************)
\* A field holding the empty string reads back as unset
read_back(v) == IF v = <<>> THEN NONE ELSE v

\* C6: a configuration written with to_bash_format and read with
\* from_bash_format has every field it had before, the ssh_host, ssh_user,
\* ssh_key and ssh_port it was built with included, an empty string read back
\* as None.
C6_BashRoundTrip ==
    conf.stage = "parsed" =>
        /\ \A k \in 1..Len(VMConfigFields) :
              Attr(conf.parsed, VMConfigFields[k])
                 = read_back(conf.obj[VMConfigFields[k]])
        /\ \A f \in SshFields : Attr(conf.parsed, f) = read_back(conf.kwargs[f])

(***************************************************************************)
(* Properties of the pre-checks of the remote commands.                    *)
(***************************************************************************)
\* The commands that go through _get_vm_manager and _check_vm_running
CheckedCommands ==
    {"provision", "deploy", "ps", "logs", "restart", "setup", "secrets"}

NonZeroExit == {"aborted", "crashed"}

\* C11: in provision, deploy, ps, logs, restart, setup and secrets, when no
\* configuration file exists, or (gcloud backend) the instance does not exist
\* or is not RUNNING, or (direct backend) the `echo ok` probe fails, the
\* command ends with a non-zero exit and nothing follows the failed check: no
\* script is executed and no file is copied.
C11_FailedPreCheckEndsTheCommand ==
    (args.command \in CheckedCommands /\ pc # "start") =>
        /\ ~env.config_exists =>
              log = <<>> /\ pc = "end" /\ status \in NonZeroExit
        /\ (env.config_exists /\ ~use_direct_ssh(config) /\ env.vm # "RUNNING") =>
              /\ pc = "end" /\ status \in NonZeroExit
              /\ \A k \in 1..Len(log) : log[k].op \in {"exists", "status"}
        /\ \A k \in 1..Len(log) :
              (log[k].what = "echo ok" /\ ~log[k].ok) =>
                  k = Len(log) /\ pc = "end" /\ status \in NonZeroExit

\* C11 witness: deploy against a stopped instance ended after the status query
C11_Witness ==
    /\ args.command = "deploy"
    /\ env.config_exists /\ ~use_direct_ssh(config) /\ env.gcloud
    /\ env.vm = "TERMINATED"
    /\ pc = "end" /\ status = "aborted"
    /\ Len(log) = 2 /\ log[2].op = "status"

(***************************************************************************)
(* Properties of the lifecycle commands.                                   *)
(***************************************************************************)
DestructiveCalls == {"VMManager.delete", "DiskManager.restore"}

\* What VMManager.delete and DiskManager.restore issue
DestructiveOps == {"delete", "stop", "disk_delete", "disk_create"}

Answered(a) ==
    \E k \in 1..Len(calls) : calls[k].step = "confirm" /\ calls[k].answer = a

\* C12: VMManager.delete and DiskManager.restore are called only when --yes
\* was given or the confirmation prompt was answered yes; when the prompt is
\* answered no, the command makes no destructive call, issues none of their
\* commands and exits with status 0.
C12_DestructiveOnlyWhenConfirmed ==
    args.command \in {"delete", "restore"} =>
        /\ (\E k \in 1..Len(calls) : calls[k].step \in DestructiveCalls) =>
              (args.yes \/ Answered("y"))
        /\ (\E k \in 1..Len(log) : log[k].op \in DestructiveOps) =>
              (\E k \in 1..Len(calls) : calls[k].step \in DestructiveCalls)
        /\ Answered("n") =>
              /\ pc = "end" /\ status = "done"
              /\ \A k \in 1..Len(calls) : calls[k].step \notin DestructiveCalls
              /\ \A k \in 1..Len(log) : log[k].op \notin DestructiveOps

\* C12 witness: a restore without --yes whose prompt was answered no
C12_Witness ==
    /\ args.command = "restore" /\ ~args.yes
    /\ Answered("n")
    /\ pc = "end" /\ status = "done"
    /\ log = <<>>

\* C18: start issues no VM start when the status it read is RUNNING, stop
\* issues no VM stop when the status it read is TERMINATED, and both then
\* exit 0; when the instance does not exist both exit non-zero and issue
\* neither a start nor a stop.
C18_StartStopNoOps ==
    LET Read(st) == \E k \in 1..Len(log) :
                       log[k].op = "status" /\ log[k].ok /\ log[k].what = st
        Issued(verb) == \E k \in 1..Len(log) : log[k].op = verb
    IN  /\ (args.command = "start" /\ Read("RUNNING")) =>
              ~Issued("start") /\ pc = "end" /\ status = "done"
        /\ (args.command = "stop" /\ Read("TERMINATED")) =>
              ~Issued("stop") /\ pc = "end" /\ status = "done"
        /\ (args.command \in {"start", "stop"} /\ env.vm = "ABSENT"
              /\ pc # "start") =>
              /\ pc = "end" /\ status \in NonZeroExit
              /\ ~Issued("start") /\ ~Issued("stop")

\* C18 witness: start on a running instance ended after the status query
C18_Witness ==
    /\ args.command = "start"
    /\ pc = "end" /\ status = "done"
    /\ Len(log) = 2 /\ log[2].op = "status" /\ log[2].what = "RUNNING"
    /\ out = <<"already running">>

\* The commands DiskManager.restore has issued so far
RestoreOps == [k \in 1..Len(log) |-> log[k].op]

\* The order of a restore whose existence query answered `exists` and whose
\* status query, if any, answered `st`
RestorePlan(exists, st) ==
    <<"exists">> \o
    (IF exists THEN <<"status">> ELSE <<>>) \o
    (IF exists /\ st = "RUNNING" THEN <<"stop">> ELSE <<>>) \o
    <<"disk_delete", "disk_create", "start">>

IsDiskOp(o) == o.op \in {"disk_delete", "disk_create"}
IsStartOp(o) == o.op = "start"

\* C17: the commands of DiskManager.restore are, in this order: the existence
\* query; the status query only when the instance exists; the stop only when
\* the status read is RUNNING; the deletion of the data disk; its creation
\* from the snapshot; the start of the instance.  A command is issued only
\* after every earlier one succeeded, and a restore that succeeds has started
\* the instance exactly once and issued exactly two disk commands, the
\* deletion and then the creation.
C17_RestoreOrder ==
    (args.command = "restore" /\ log # <<>>) =>
        LET exists == log[1].ok
            st == IF Len(log) >= 2 /\ log[2].op = "status" THEN log[2].what
                  ELSE "-"
        IN  /\ IsPrefix(RestoreOps, RestorePlan(exists, st))
            /\ \A k \in 1..Len(log) : (k < Len(log) /\ k > 1) => log[k].ok
            /\ (pc = "end" /\ status = "done") =>
                  /\ RestoreOps = RestorePlan(exists, st)
                  /\ Len(SelectSeq(log, IsStartOp)) = 1
                  /\ [k \in 1..2 |-> SelectSeq(log, IsDiskOp)[k].op]
                        = <<"disk_delete", "disk_create">>
                  /\ Len(SelectSeq(log, IsDiskOp)) = 2

\* C17 witness: a confirmed restore of a running instance went through all
\* six commands
C17_Witness ==
    /\ args.command = "restore"
    /\ pc = "end" /\ status = "done"
    /\ RestoreOps = <<"exists", "status", "stop", "disk_delete", "disk_create",
                      "start">>
    /\ env.vm = "RUNNING"

(***************************************************************************)
(* Properties of the configuration model and of its manager.               *)
(***************************************************************************)
\* C13: VMConfig(vm_name = v) is rejected when v is empty, does not start
\* with a letter, holds a character that is not a letter, a digit or a
\* hyphen, or is longer than 63 characters; every other v is accepted and
\* stored lower-cased.
C13_NameValidation ==
    (conf.stage = "constructed" /\ conf.kwargs.vm_name # NONE) =>
        LET v == conf.kwargs.vm_name
            Letter == {"v", "m", "V", "a", LongRun}
            rejected == \/ v = <<>>
                        \/ v[1] \notin Letter
                        \/ \E k \in 1..Len(v) : v[k] \notin Letter \cup {"1", "-"}
                        \/ str_len(v) > 63
        IN  IF rejected THEN conf.obj = [error |-> ValueError]
            ELSE /\ "error" \notin DOMAIN conf.obj
                 /\ conf.obj.vm_name = lower(v)

\* C13 witness: a 63-character name with a capital was accepted and
\* lower-cased, as a name with a hyphen and a digit would be
C13_Witness ==
    /\ conf.stage = "constructed"
    /\ conf.kwargs.vm_name = <<"V", LongRun>>
    /\ "error" \notin DOMAIN conf.obj
    /\ conf.obj.vm_name = <<"v", LongRun>>

\* C14: after ConfigManager.update, the configuration it returns and the one
\* a fresh ConfigManager loads have every field passed with a value other than
\* None set to that value, and every other field as it was stored before.
C14_UpdateChangesExactlyTheFieldsPassed ==
    conf.stage = "reloaded" =>
        \A f \in DOMAIN conf.upd \cup Range(VMConfigFields) :
            IF f \in DOMAIN conf.upd /\ conf.upd[f] # NONE
            THEN /\ Attr(conf.updated, f) = conf.upd[f]
                 /\ Attr(conf.loaded, f) = conf.upd[f]
            ELSE /\ Attr(conf.updated, f) = Attr(conf.parsed, f)
                 /\ Attr(conf.loaded, f) = Attr(conf.parsed, f)

\* C15: in the configuration parsed from a file, a field whose key is absent
\* or present with an empty value is None, a field whose key has a value has
\* that value, and a key that names no field changes nothing.
C15_AbsentAndEmptyKeysAreUnset ==
    conf.stage = "file parsed" =>
        LET unset_or(v) == IF v = <<>> THEN NONE ELSE v
        IN  /\ "error" \notin DOMAIN conf.parsed
            /\ Attr(conf.parsed, "vm_name") = unset_or(conf.file.VM_NAME)
            /\ Attr(conf.parsed, "project") = unset_or(conf.file.PROJECT)
            /\ Attr(conf.parsed, "app_dir") = unset_or(conf.file.APP_DIR)
            /\ Attr(conf.parsed, "ssh_host") = unset_or(conf.file.SSH_HOST)
            /\ conf.parsed =
                  from_bash_format(file_text([conf.file EXCEPT !.EDITOR = NONE]))

(***************************************************************************)
(* Properties of the deploy, ps, logs and restart commands.                *)
(***************************************************************************)
\* The deploy script of a directory with no deploy.sh, no .git, no compose file
BareDirScript ==
    build_deploy_script([deploy_sh |-> FALSE, git |-> FALSE, compose |-> FALSE])

DockerCompose == {"docker compose up -d --build", "docker compose ps"}

\* C16: when the deploy script runs in an app directory (the connection and
\* the cd succeeded) that holds no deploy.sh, no .git and no compose file, it
\* prints "No compose file found" and stops at `exit 1` before any docker
\* compose line, its result is failure, and the deploy command reports
\* failure and exits non-zero; in setup a deploy step whose directory holds no
\* compose file fails, is the last command of the run and aborts it without
\* "Setup complete".
C16_NoComposeFileFailsTheDeploy ==
    /\ (run.script = "deploy" /\ run.cmds = BareDirScript.cmds
          /\ run.ran >= 1 /\ 1 \notin run.fails) =>
          /\ run.cmds[run.ran] = "exit 1"
          /\ \E k \in 1..(run.ran - 1) : run.cmds[k] = "echo No compose file found"
          /\ \A k \in 1..run.ran : run.cmds[k] \notin DockerCompose
          /\ ~run.ok /\ run.reported = "failure"
          /\ pc = "end" /\ status = "aborted"
    /\ \A k \in 1..Len(log) :
          (log[k].what = "deploy script" /\ ~log[k].compose) =>
              /\ ~log[k].ok /\ k = Len(log)
              /\ calls[Len(calls)] = Call("deploy", log[k].app, FALSE)
              /\ pc = "end" /\ status = "aborted"
              /\ \A j \in 1..Len(out) : out[j] # "Setup complete"

\* C16 witness: a deploy command whose script stopped at `exit 1` in a bare
\* directory
C16_Witness ==
    /\ args.command = "deploy"
    /\ run.script = "deploy" /\ run.cmds = BareDirScript.cmds
    /\ run.ran = 4 /\ run.cmds[4] = "exit 1"
    /\ run.reported = "failure" /\ status = "aborted"

DirCommands == {"deploy", "ps", "logs", "restart"}

\* The scripts a command sent, the probe of the pre-check left out
ScriptsSent == SelectSeq(log, LAMBDA o : o.op = "ssh_exec" /\ o.what # "echo ok")

\* C19 as stated: deploy, ps, logs and restart build their script with the
\* --app-dir option whenever it is given, with the configured app_dir
\* otherwise, and exit non-zero without sending a script when neither is set.
C19_ExplicitAppDirWhenGiven ==
    (args.command \in DirCommands /\ pc = "end") =>
        /\ \A k \in 1..Len(ScriptsSent) :
              ScriptsSent[k].dir = (IF args.app_dir # None THEN args.app_dir
                                    ELSE config.app_dir)
        /\ (args.app_dir = None /\ config.app_dir = None) =>
              ScriptsSent = <<>> /\ status \in NonZeroExit

\* C19: deploy, ps, logs and restart build their script with the --app-dir
\* option when it is given and not empty, with the configured app_dir
\* otherwise (option absent or empty); when that leaves no directory they
\* exit non-zero without sending a script.
C19_NonEmptyAppDirElseConfig ==
    (args.command \in DirCommands /\ pc = "end") =>
        LET expected == IF args.app_dir \notin {None, ""} THEN args.app_dir
                        ELSE config.app_dir
        IN  /\ \A k \in 1..Len(ScriptsSent) : ScriptsSent[k].dir = expected
            /\ expected = None => ScriptsSent = <<>> /\ status \in NonZeroExit

\* C19 witness: ps with an empty --app-dir ran in the configured directory
C19_Witness ==
    /\ args.command = "ps" /\ args.app_dir = ""
    /\ config.app_dir = "/srv/app"
    /\ pc = "end" /\ status = "done"
    /\ Len(ScriptsSent) = 1 /\ ScriptsSent[1].dir = "/srv/app"

\* The logs script was sent and no result came back: the session was interrupted
LogsInterrupted ==
    /\ args.command = "logs" /\ pc = "end"
    /\ ScriptsSent # <<>> /\ run = NoRun

\* The logs script came back with a non-zero exit
LogsFailed ==
    /\ args.command = "logs" /\ pc = "end"
    /\ run # NoRun /\ ~run.ok

\* C20: a keyboard interrupt during the logs script ends the command cleanly
\* (exit 0, "streaming stopped", nothing crashed, the remote state left as it
\* was); with --follow a non-zero exit of the remote command is reported as
\* "streaming stopped" and the command exits 0; without --follow a non-zero
\* exit makes the command exit non-zero.
C20_InterruptAndFollowExitCleanly ==
    /\ LogsInterrupted =>
          /\ status = "done"
          /\ out[Len(out)] = "stopped"
          /\ remote = EmptyRemote
    /\ (LogsFailed /\ args.follow) =>
          status = "done" /\ run.reported = "stopped" /\ out[Len(out)] = "stopped"
    /\ (LogsFailed /\ ~args.follow) =>
          status \in NonZeroExit /\ run.reported = "failure"

\* C20 witness: a followed log stream whose remote command exited non-zero
C20_Witness ==
    /\ LogsFailed /\ args.follow
    /\ status = "done" /\ out[Len(out)] = "stopped"

\* The source-update commands of a deploy script
SourceUpdates == {"bash ./deploy.sh", "git pull --ff-only", "echo skip source update"}

\* The position of a command in the deploy script that ran, 0 when it has none
LineOf(c) ==
    IF \E k \in 1..Len(run.cmds) : run.cmds[k] = c
    THEN CHOOSE k \in 1..Len(run.cmds) : run.cmds[k] = c
    ELSE 0

\* C21: a deploy script that reached its app directory takes exactly one
\* source-update branch: the deploy hook when deploy.sh exists (no pull, even
\* with .git), else a fast-forward-only pull when .git exists, whose failure
\* fails the step, else the source update is skipped; when the branch taken
\* does not fail, the compose file check follows (stopping the script at
\* `exit 1` without a compose file) and then compose up.
C21_OneSourceUpdateBranch ==
    (run.script = "deploy" /\ run.ran >= 2) =>
        LET d == run.found
            branch == IF d.deploy_sh THEN "bash ./deploy.sh"
                      ELSE IF d.git THEN "git pull --ff-only"
                      ELSE "echo skip source update"
        IN  /\ {k \in 1..Len(run.cmds) : run.cmds[k] \in SourceUpdates} = {2}
            /\ run.cmds[2] = branch
            /\ (2 \in run.fails) =>
                  /\ run.ran = 2 /\ ~run.ok
                  /\ run.reported = "failure" /\ status = "aborted"
            /\ (2 \notin run.fails) =>
                  IF d.compose
                  THEN /\ LineOf("exit 1") = 0
                       /\ LineOf("docker compose up -d --build") = 3
                  ELSE /\ run.cmds[run.ran] = "exit 1" /\ ~run.ok
                       /\ LineOf("docker compose up -d --build") > run.ran

\* C21 witness: a directory with deploy.sh and .git, where the hook ran, no
\* pull was made and compose up followed
C21_Witness ==
    /\ args.command = "deploy" /\ status = "done"
    /\ run.script = "deploy" /\ run.ok
    /\ run.found.deploy_sh /\ run.found.git
    /\ run.cmds[2] = "bash ./deploy.sh" /\ run.ran = Len(run.cmds)

(***************************************************************************)
(* Properties of setup's provisioning step.                                *)
(***************************************************************************)
RuntimeChecks == {k \in 1..Len(log) : log[k].what = "command -v docker"}
InstallScripts == {k \in 1..Len(log) : log[k].what = "provision script"}

\* C22: in setup without --skip-provision the runtime check is issued once,
\* before anything else of the provisioning step, and the install script is
\* issued exactly when the check did not find the runtime (right after it);
\* with --skip-provision neither is issued; a failed install script is the
\* last command of the run, which aborts before the directory bootstrap.
C22_InstallOnlyWhenRuntimeMissing ==
    (args.command = "setup") =>
        /\ args.skip_provision => RuntimeChecks = {} /\ InstallScripts = {}
        /\ (~args.skip_provision /\ PastPreflight /\ pc # "provision") =>
              Cardinality(RuntimeChecks) = 1
        /\ \A k \in RuntimeChecks :
              IF log[k].ok /\ log[k].stdout # ""
              THEN k + 1 \notin InstallScripts
              ELSE k + 1 \in InstallScripts
        /\ \A k \in InstallScripts : k - 1 \in RuntimeChecks
        /\ \A k \in InstallScripts :
              ~log[k].ok =>
                  /\ k = Len(log) /\ pc = "end" /\ status = "aborted"
                  /\ BootstrapCalls = {}

\* C22 witness: the check found no runtime and the install script failed
C22_Witness ==
    /\ args.command = "setup" /\ ~args.skip_provision
    /\ InstallScripts # {}
    /\ ~log[Len(log)].ok /\ log[Len(log)].what = "provision script"
    /\ status = "aborted"

(***************************************************************************)
(* Properties of the runnable-state check.                                 *)
(***************************************************************************)
Probes == {k \in 1..Len(log) : log[k].what = "echo ok"}
StatusQueries == {k \in 1..Len(log) : log[k].op \in {"exists", "status"}}

\* C23: a command that ran the runnable-state check issued, under the direct
\* transport, exactly one `echo ok` remote command and no existence or status
\* query; under the proxy transport it issued no `echo ok`, and anything
\* follows the check only when the existence query answered yes and the status
\* read was RUNNING; under both transports a failed check ends the command
\* with a non-zero exit.
C23_CheckDependsOnTransport ==
    (args.command \in CheckedCommands /\ pc # "start" /\ env.config_exists) =>
        IF use_direct_ssh(config)
        THEN /\ Probes = {1} /\ StatusQueries = {}
             /\ ~log[1].ok => Len(log) = 1 /\ pc = "end" /\ status \in NonZeroExit
        ELSE /\ Probes = {}
             /\ log[1].op = "exists"
             /\ IF log[1].ok /\ env.vm = "RUNNING"
                THEN StatusQueries = {1, 2} /\ log[2].op = "status"
                ELSE /\ StatusQueries = 1..Len(log)
                     /\ pc = "end" /\ status \in NonZeroExit

\* C23 witness: ps under the direct transport, one probe and then the script
C23_Witness ==
    /\ args.command = "ps" /\ use_direct_ssh(config)
    /\ pc = "end" /\ status = "done"
    /\ Probes = {1} /\ Len(log) = 2 /\ log[2].what = "ps"

(***************************************************************************)
(* Properties of setup's app list.                                         *)
(***************************************************************************)
\* The entries of --apps trimmed, the empty ones dropped
TrimmedEntries ==
    LET kept == SelectSeq(args.apps, LAMBDA a : strip(a) # "")
    IN  [k \in 1..Len(kept) |-> strip(kept[k])]

\* The apps a run has worked on
AppsProcessed == {calls[k].app : k \in 1..Len(calls)} \ {"-"}

ListParsed == args.command = "setup" /\ (\E k \in 1..Len(calls) : calls[k].step = "preflight")

\* C24 as stated: the app list is the default pair when --apps is absent and
\* the trimmed non-empty entries of --apps whenever it is supplied; every app
\* processed is in the list.
C24_SuppliedListNeverDefaults ==
    ListParsed =>
        /\ app_list = (IF args.apps = <<>> THEN DEFAULT_APPS ELSE TrimmedEntries)
        /\ AppsProcessed \subseteq Range(app_list)

\* C24: the app list is the default pair, gateway then workstation, when
\* --apps is absent or the empty string, and otherwise the entries of the
\* comma list trimmed, empty entries dropped, order and duplicates kept (a
\* non-empty --apps never falls back to the default pair, even when every
\* entry is empty); every app processed by the run is in the list.
C24_AppListFromNonEmptyOption ==
    ListParsed =>
        /\ app_list = (IF args.apps \in {<<>>, <<"">>} THEN DEFAULT_APPS
                       ELSE TrimmedEntries)
        /\ AppsProcessed \subseteq Range(app_list)

\* C24 witness: a list with a trailing comma and a padded entry, both apps
\* processed in the order given
C24_Witness ==
    /\ args.command = "setup" /\ status = "done"
    /\ args.apps = <<PADDED_WORKSTATION, "">>
    /\ app_list = <<WORKSTATION>>
    /\ AppsProcessed = {WORKSTATION}

(***************************************************************************)
(* Properties of TunnelManager.stop.                                       *)
(***************************************************************************)
\* The step is a call of stop
StopCalled ==
    Len(calls') = Len(calls) + 1 /\ calls'[Len(calls')].step = "stop"

\* The calls stop made on the process
StopOps == SubSeq(log', Len(log) + 1, Len(log'))

\* C25: stop with no tracked process raises TunnelError and changes nothing;
\* with a tracked process the handle is None afterwards however stop ends; a
\* process that had already exited is neither signalled nor killed; a process
\* whose wait timed out is killed.
C25_StopClearsTheHandle ==
    [][StopCalled =>
         IF conf._process = <<>>
         THEN /\ status' = "TunnelError" /\ ~calls'[Len(calls')].ok
              /\ UNCHANGED <<conf, env, log>>
         ELSE /\ conf'._process = <<>>
              /\ env.procs[conf._process[1]] = "exited" =>
                    /\ \A k \in 1..Len(StopOps) : StopOps[k].op = "poll"
                    /\ UNCHANGED env
              /\ \A k \in 1..Len(StopOps) :
                    (StopOps[k].op = "wait" /\ ~StopOps[k].ok /\ status' # "TunnelError") =>
                        k < Len(StopOps) /\ StopOps[k + 1].op = "kill"
    ]_vars

\* C25 witness: a process that ignored SIGTERM was killed and the handle is None
C25_Witness ==
    /\ args.command = "tunnel"
    /\ conf._process = <<>>
    /\ log # <<>> /\ log[Len(log)] = ProcOp("kill", 1, TRUE)
    /\ env.procs[1] = "exited" /\ status = "done"

(***************************************************************************)
(* Properties of one run of the app sync step.                             *)
(***************************************************************************)
\* The step is a run of the app sync step
SyncRan == Len(hist') = Len(hist) + 1

\* The commands that run issued
SyncOps == SubSeq(log', Len(log) + 1, Len(log'))

\* The copy failed after the old app directory had been removed
CopyFailedAfterRemove ==
    /\ Len(SyncOps) = 3
    /\ SyncOps[2].what = "rm -rf app" /\ SyncOps[2].ok
    /\ ~SyncOps[3].ok

\* The step failed exactly for one of the three stated reasons, and the copy
\* followed the remove whatever the remove's result
SyncFailsForThreeReasons ==
    /\ hist'[Len(hist')].ok <=>
          /\ app_list[1] \in env.local_apps
          /\ Len(SyncOps) = 3
          /\ SyncOps[1].what = "mkdir -p apps" /\ SyncOps[1].ok
          /\ SyncOps[3].what = "scp -r app" /\ SyncOps[3].ok
    /\ \A k \in 1..Len(SyncOps) :
          SyncOps[k].what = "rm -rf app" =>
              k < Len(SyncOps) /\ SyncOps[k + 1].what = "scp -r app"

\* C26 as stated: the step fails exactly when the local path is missing, the
\* mkdir failed or the copy failed; the copy follows the remove whatever its
\* result; a failed copy after a successful remove leaves no remote app
\* directory.
C26_FailedCopyLeavesNoDirectory ==
    [][SyncRan =>
         /\ SyncFailsForThreeReasons
         /\ CopyFailedAfterRemove => remote_app_path(app_list[1]) \notin remote'.dirs
    ]_vars

\* C26: the step fails exactly when the local path is missing, the mkdir
\* failed or the copy failed; the copy follows the remove whatever its result;
\* a failed copy after a successful remove leaves the remote app directory
\* without any of its previous content, absent or holding only the part of
\* the new copy that arrived, and nothing restores it.
C26_FailedCopyLeavesAtMostAPartialCopy ==
    [][SyncRan =>
         /\ SyncFailsForThreeReasons
         /\ CopyFailedAfterRemove =>
               /\ app_content(remote', app_list[1]) \in PartialCopies
               /\ remote_app_path(app_list[1]) \notin remote'.dirs =>
                     app_content(remote', app_list[1]) = {}
    ]_vars

\* C26 witness: the old copy was removed, the copy failed, and the app
\* directory that held a stale file is gone
C26_Witness ==
    /\ args.command = "sync" /\ Len(hist) = 1 /\ ~hist[1].ok /\ hist[1].removed
    /\ Len(log) = 3 /\ ~log[3].ok
    /\ remote_app_path(app_list[1]) \notin remote.dirs

(***************************************************************************)
(* Properties of the gateway source-repo sync.                             *)
(***************************************************************************)
RepoSyncs == {k \in 1..Len(calls) : calls[k].step = "repo_sync"}
RepoCopies == {k \in 1..Len(log) : log[k].what = "scp -r repo"}
RepoMoves == {k \in 1..Len(log) : log[k].what = "mv into repo"}

\* C27: the gateway repo sync reports the result of its copy and nothing else:
\* the copy follows the remove whatever the remove's result, the move is
\* issued exactly when the copy succeeded and its result changes nothing, and
\* after a failed copy setup aborts with the copy as its last command, before
\* any app is synced.
C27_RepoSyncResultIsTheCopyResult ==
    /\ Cardinality(RepoSyncs) = Cardinality(RepoCopies)
    /\ Cardinality(RepoSyncs) <= 1
    /\ \A c \in RepoSyncs : \A k \in RepoCopies :
          /\ calls[c].ok = log[k].ok
          /\ k > 1 /\ log[k - 1].what = "rm -rf repo/*"
          /\ log[k].ok <=> (k + 1 \in RepoMoves)
          /\ ~log[k].ok =>
                /\ k = Len(log) /\ pc = "end" /\ status = "aborted"
                /\ \A j \in 1..Len(calls) : calls[j].step # "sync"
    /\ \A k \in RepoMoves : k - 1 \in RepoCopies

\* C27 witness: the remove and the move failed, the copy succeeded, and the
\* run went on to sync the gateway app
C27_Witness ==
    /\ \E k \in RepoCopies :
          ~log[k - 1].ok /\ log[k].ok /\ ~log[k + 1].ok /\ k + 1 \in RepoMoves
    /\ \E c \in RepoSyncs : calls[c].ok
    /\ \E j \in 1..Len(calls) : calls[j] = Call("sync", GATEWAY, TRUE)

(***************************************************************************)
(* Properties of a failed restore.                                         *)
(***************************************************************************)
\* The restore command at position k of the log is `op` and it failed
RestoreFailedAt(k, op) == log[k].op = op /\ ~log[k].ok

\* C28: in DiskManager.restore a step that fails is the last command issued
\* and the command ends with a non-zero exit; when the creation of the disk
\* from the snapshot fails, the data disk stays deleted and the instance is
\* not started; the disk deletion is issued only after a successful stop when
\* the status read was RUNNING.
C28_RestoreHasNoRollback ==
    (args.command = "restore" /\ log # <<>>) =>
        /\ \A k \in 2..Len(log) :
              ~log[k].ok => k = Len(log) /\ pc = "end" /\ status \in NonZeroExit
        /\ \A k \in 1..Len(log) :
              RestoreFailedAt(k, "disk_create") =>
                  /\ env.disk = "deleted" /\ env.vm # "RUNNING"
                  /\ SelectSeq(log, IsStartOp) = <<>>
                  /\ \E j \in 1..(k - 1) : log[j].op = "disk_delete" /\ log[j].ok
        /\ \A k \in 1..Len(log) :
              (log[k].op = "disk_delete" /\ log[2].what = "RUNNING") =>
                  k = 4 /\ log[3].op = "stop" /\ log[3].ok
        /\ env.disk # "data" => \E k \in 1..Len(log) : log[k].op = "disk_delete" /\ log[k].ok

\* C28 witness: the instance was stopped, the disk deleted, the creation
\* failed, and the run ended with no disk and a stopped instance
C28_Witness ==
    /\ args.command = "restore" /\ pc = "end" /\ status = "aborted"
    /\ RestoreOps = <<"exists", "status", "stop", "disk_delete", "disk_create">>
    /\ RestoreFailedAt(5, "disk_create")
    /\ env.disk = "deleted" /\ env.vm = "TERMINATED"

(***************************************************************************)
(* Properties of the legacy configuration migration.                       *)
(***************************************************************************)
\* The step is a call of load, and what it recorded
LoadCalled == Len(calls') = Len(calls) + 1 /\ calls'[Len(calls')].step = "load"
ThisLoad == calls'[Len(calls')]

\* What the claim says of needs_migration, of a successful and of a failed
\* migrate, whatever the items copied
MigrationOutcome(items) ==
    /\ needs_migration(env) <=>
          /\ env.vmws.exists \/ env.codestation.exists
          /\ ~env.new.exists \/ ~env.marker
    /\ ThisLoad.ok =>
          /\ needs_migration(env)
          /\ env'.new.exists /\ env'.marker
          /\ env'.new.items = env.new.items \cup items
          /\ env'.vmws = env.vmws /\ env'.codestation = env.codestation
          /\ ~needs_migration(env')
    /\ (ThisLoad.attempted /\ ~ThisLoad.ok) =>
          /\ ~env'.marker /\ needs_migration(env')
          /\ env'.vmws = env.vmws /\ env'.codestation = env.codestation
    /\ ~ThisLoad.attempted => env' = env

\* C29 as stated: needs_migration is true iff a legacy directory exists and
\* the new directory or its marker is missing; a successful migrate copies
\* every legacy item except the marker, writes the marker and leaves the
\* legacy directory alone, after which no load needs a migration; a failed
\* migrate writes no marker, and every load that finds a migration needed
\* attempts it.
C29_EveryLoadRetriesAndCopiesAll ==
    [][LoadCalled =>
         /\ MigrationOutcome(find_legacy_dir(env).items \ {".migrated"})
         /\ ThisLoad.attempted <=> needs_migration(env)
    ]_vars

\* C29: needs_migration is true iff a legacy directory exists and the new
\* directory or its marker is missing; a successful migrate copies every
\* file and directory at the top of the legacy directory found (.codestation
\* before .vmws) except the marker, skipping what is neither file nor
\* directory, writes the marker last and leaves the legacy directories alone,
\* after which needs_migration is false; a failed migrate writes no marker
\* and leaves needs_migration true; a load attempts the migration exactly
\* when it is the first load of its ConfigManager and needs_migration is true.
C29_FirstLoadOfAManagerMigrates ==
    [][LoadCalled =>
         /\ MigrationOutcome(find_legacy_dir(env).items \ {".migrated", "socket"})
         /\ ThisLoad.attempted <=> (~conf._migration_checked /\ needs_migration(env))
    ]_vars

\* C29 witness: a migration failed, a new manager tried again and succeeded,
\* and the marker is there
C29_Witness ==
    /\ args.command = "load" /\ Len(calls) = 2
    /\ calls[1].attempted /\ ~calls[1].ok
    /\ calls[2].attempted /\ calls[2].ok
    /\ env.marker /\ ~needs_migration(env)

(***************************************************************************)
(* Properties of secrets --set.                                            *)
(***************************************************************************)
\* The set scripts sent, in order
SecretWrites == SelectSeq(log, LAMBDA o : o.what = "secrets set")

\* The lines of a secrets file that carry the key of x
LinesFor(lines, x) == SelectSeq(lines, LAMBDA l : key_of(l) = key_of(x))

\* C30: secrets --set validates every argument before any remote write (one
\* malformed argument, no write); the valid secrets are written one at a time
\* in argument order, the first failed write is the last one and aborts the
\* command; after each successful write the secrets file holds exactly one
\* line for that key, and it carries the value just set.
C30_SetWritesOneLinePerKey ==
    (args.command = "secrets" /\ args.mode = "set" /\ pc = "end") =>
        /\ (\E k \in 1..Len(args.secrets) : ~valid_secret(args.secrets[k])) =>
              SecretWrites = <<>> /\ status \in NonZeroExit
        /\ Len(SecretWrites) <= Len(args.secrets)
        /\ \A k \in 1..Len(SecretWrites) :
              /\ SecretWrites[k].app = args.secrets[k]
              /\ k < Len(SecretWrites) => SecretWrites[k].ok
              /\ ~SecretWrites[k].ok => status = "aborted"
        /\ status = "done" => Len(SecretWrites) = Len(args.secrets)
        /\ \A k \in 1..Len(hist) :
              hist[k].ok => LinesFor(hist[k].content, hist[k].set) = <<hist[k].set>>

====
